---- MODULE Spec2Model ----
(***************************************************************************)
(* Verification model of the Talos Principle Archipelago client core:      *)
(* identifier registry and duplicate resolution (ItemMapping), collection  *)
(* state reconciliation (InventorySync::EnforceCollectionState as driven   *)
(* by ModCore) and the DeathLink protocol (DeathLinkHandler / ModCore).    *)
(*                                                                         *)
(* Strings are modelled as sequences of one-character strings, so that the *)
(* character-level helpers of ItemMapping.cpp (ExtractPrefix,              *)
(* ExtractNumber, IsStar, IsPurpleSigil, std::to_string, std::stoi) are    *)
(* computed the way the code computes them.                                *)
(***************************************************************************)
EXTENDS Integers, Sequences, FiniteSets, TLC

VARIABLES
    \* ---- ItemMapping ----
    m_receivedCounts,       \* ItemMapping::m_receivedCounts (prefix -> int)
    sequenceWrites,         \* writes made to ItemMapping::m_tetrominoSequences since BuildSequences
    \* ---- network coordinator (environment) and observation history ----
    serverItems,            \* item IDs the server has sent to this slot, in order
    resolveLog,             \* <<apItemId, result>> of every ResolveNextItem call since the last reset
    origLog,                \* result each server item resolved to when it was first delivered
    \* ---- ModState ----
    GrantedItems,           \* ModState::GrantedItems
    CheckedLocations,       \* ModState::CheckedLocations
    APSynced,               \* ModState::APSynced
    RandomisePurpleSigils,  \* ModState::RandomisePurpleSigils
    RandomiseStars,         \* ModState::RandomiseStars
    ReusableTetrominos,     \* ModState::ReusableTetrominos
    CurrentProgress,        \* ModState::CurrentProgress ("null" or "valid")
    \* ---- host world (environment) ----
    CollectedTetrominos,    \* UTalosProgress::CollectedTetrominos, TMap<FString,bool>
    progressReachable,      \* can UTalosProgress::Get currently return a readable object
    lastPass,               \* observation of the ModCore::EnforceCollectionState call just made
    \* ---- ModState, DeathLink ----
    DeathLinkEnabled,         \* ModState::DeathLinkEnabled
    IsDeathLinkDeath,         \* ModState::IsDeathLinkDeath (echo-suppress flag)
    PendingDeathLinkSend,     \* ModState::PendingDeathLinkSend
    PendingDeathLinkReceive,  \* ModState::PendingDeathLinkReceive
    PendingDeferredDeathLink, \* ModState::PendingDeferredDeathLink
    \* ---- host world, player (environment) ----
    playerPresent,          \* a PlayerController with a Pawn exists
    bIsDead,                \* ATalosCharacter::bIsDead of the pawn
    minePresent,            \* the level holds a BP_Mine_C / BP_PassiveMine_C
    mineOnPlayer,           \* a mine was teleported onto the player and has not yet exploded
    \* ---- observation history of the link protocol ----
    lastEvent,              \* what the step just taken did
    lastOutcome,            \* outcome of the most recent drained inbound request
    inboundCount,           \* inbound link events delivered by the network
    enactCount,             \* inbound requests enacted (mine teleported)
    consumeCount,           \* times the SetDeath hook consumed the echo-suppress flag
    localDeathCount,        \* local deaths not caused by a teleported mine
    sendCount,              \* SendDeathLink calls
    \* ---- level transition cooldown (ModState / ModCore) ----
    inLevelTransitionCooldown,           \* what ModState::IsInLevelTransitionCooldown() returns
    m_levelTransitionCooldownWasActive,  \* ModCore::m_levelTransitionCooldownWasActive
    \* ---- observation history of the deferred retry ----
    transitionCount,        \* level transitions begun
    expiryCount,            \* level-transition cooldowns that have ended
    rearmCount,             \* times the cooldown handler re-armed PendingDeathLinkReceive
    deferredUnenacted,      \* a request was deferred and no defeat has been enacted since
    \* ---- Lua scripts (scripts/main.lua) ----
    State_CurrentProgress,        \* State.CurrentProgress: "nil", "valid", or "stale" (IsValid() is false)
    State_LevelTransitionCooldown, \* State.LevelTransitionCooldown
    VisibilityApplied,            \* the fast loop's local VisibilityApplied (id -> "visible" | "hidden" | "none")
    actorPresentation,            \* per item, what the driver last did to its current actor
    delayedEnforcePending,        \* the LoopAsync(2000) callback of ClientRestart has not yet run
    \* ---- observation history of the Lua loops ----
    pairAtRun,              \* (checked, granted) of each item when the fast loop last handled it
    lastVis,                \* what the Lua step just taken did
    \* ---- TickScheduler and the steady clock ----
    steadyNow,              \* what std::chrono::steady_clock::now() returns, in clock units
    m_lastTick,             \* TickScheduler::m_lastTick (0 is TimePoint{})
    m_frame,                \* TickScheduler::m_frame
    \* ---- ModCore: shutdown and goal ----
    m_shuttingDown,         \* the atomic flag ModCore::m_shuttingDown points to
    m_goalCompleted,        \* GoalDetectionHandler::m_goalCompleted
    m_goalSent,             \* ModCore::m_goalSent
    \* ---- observation history of the scheduler and the core ----
    calledBefore,           \* ShouldTick has been called
    lastFireAt,             \* clock reading of the latest ShouldTick call that returned true
    lastSched,              \* what the scheduler step just taken did
    pollCount,              \* APClientWrapper::Poll calls
    goalSendCount,          \* SendGoalComplete calls
    shutdownTicks,          \* ModCore::Tick calls made with the shutdown flag set
    \* ---- observation of ItemMapping's key translation ----
    lastConv,               \* the ToGameKey / FromGameKey call just made
    \* ---- TalosPrincipleArchipelagoMod::on_update ----
    m_tickCount,            \* TalosPrincipleArchipelagoMod::m_tickCount
    \* ---- observation history of the tick drivers ----
    lastCadence,            \* which paced steps the driver's latest tick ran
    visibilityAloneSince,   \* a tick ran visibility without reconciliation since reconciliation last ran
    \* ---- GoalDetectionHandler ----
    m_pollReadyTime,        \* GoalDetectionHandler::m_pollReadyTime (0 is time_point{})
    m_pollingActive,        \* GoalDetectionHandler::m_pollingActive
    m_previousGameCompleted, \* GoalDetectionHandler::m_previousGameCompleted
    m_lastPolledUrl,        \* GoalDetectionHandler::m_lastPolledUrl
    isGameCompleted,        \* what TalosSaveSubsystem:IsGameCompleted returns
    \* ---- observation history of goal detection ----
    goalInitAt,             \* clock reading at GoalDetectionHandler::Init, 0 before it
    lastRead,               \* what the latest IsGameCompleted poll read: "none", "true", "false"
    fireCount,              \* FireGoal calls that set m_goalCompleted
    resetCount,             \* ResetGoalState calls
    lastGoal,               \* what the goal detection step just taken did
    \* ---- the scanner of the scripts (ScanTetrominoItems) ----
    sceneActors,            \* per actor address: is it found and valid, bIsAnimating, bHidden
    TrackedItems,           \* State.TrackedItems: per address, the entry or none
    \* ---- observation history of the scanner ----
    reportedSince,          \* per address: "no", or reported and not seen ready to be picked up
                            \* since, the entry being kept ("tracked") or not ("dropped")
    lastScan,               \* what the scan just made did
    \* ---- observation history of the SetDeath hook ----
    genuineDeathCount,      \* local deaths the hook saw with the link enabled and IsDeathLinkDeath clear
    sendCountAtDefeat       \* sendCount at the latest of them, -1 when there was none

sessionVars == <<GrantedItems, CheckedLocations, APSynced, RandomisePurpleSigils,
                 RandomiseStars, ReusableTetrominos, CurrentProgress>>
resolveVars == <<m_receivedCounts, sequenceWrites, serverItems, resolveLog, origLog>>
hostVars    == <<CollectedTetrominos, progressReachable>>
storeVars   == <<hostVars, lastPass>>
linkVars    == <<DeathLinkEnabled, IsDeathLinkDeath, PendingDeathLinkSend,
                 PendingDeathLinkReceive, PendingDeferredDeathLink,
                 playerPresent, bIsDead, minePresent, mineOnPlayer,
                 lastEvent, lastOutcome, inboundCount, enactCount, consumeCount,
                 localDeathCount, sendCount>>

tickVars    == <<inLevelTransitionCooldown, m_levelTransitionCooldownWasActive,
                 transitionCount, expiryCount, rearmCount, deferredUnenacted>>

luaVars     == <<State_CurrentProgress, State_LevelTransitionCooldown, VisibilityApplied,
                 actorPresentation, delayedEnforcePending, pairAtRun, lastVis>>

coreVars    == <<steadyNow, m_lastTick, m_frame, m_shuttingDown, m_goalCompleted,
                 m_goalSent, calledBefore, lastFireAt, lastSched, pollCount,
                 goalSendCount, shutdownTicks>>

mapVars     == <<lastConv>>

cadenceVars == <<m_tickCount, lastCadence, visibilityAloneSince>>

goalVars    == <<m_pollReadyTime, m_pollingActive, m_previousGameCompleted,
                 m_lastPolledUrl, isGameCompleted, goalInitAt, lastRead, fireCount,
                 resetCount, lastGoal>>

scanVars    == <<sceneActors, TrackedItems, reportedSince, lastScan>>

deathObsVars == <<genuineDeathCount, sendCountAtDefeat>>

handlerVars == <<cadenceVars, goalVars, scanVars, deathObsVars>>

(***************************************************************************)
(* Bounds of the model                                                     *)
(***************************************************************************)
\* ResetGoalState calls in one behaviour
MaxGoalResets == 1

\* wall-clock time one behaviour of goal detection spans, in halves of the poll delay
MaxHalfDelays == 3

\* on_update calls in one behaviour: enough for the sixtieth update
MaxUpdates == 60

\* number of items the server sends to this slot in one behaviour
MaxServerItems == 4
\* items the server sends in the Green J scenario
MaxScenarioItems == 6

\* number of inbound link events the network delivers in one behaviour
MaxInbound == 3

\* number of genuine local deaths in one behaviour
MaxLocalDeaths == 2

\* number of level transitions in one behaviour
MaxTransitions == 2

\* polling-loop runs a Lua level transition cooldown lasts (main.lua sets 50)
LuaCooldownTicks == 1

\* units of the steady clock in one millisecond
TicksPerMs == 2

\* tick intervals of wall-clock time one behaviour spans
MaxIntervals == 1

\* frames (ModCore::Tick calls) in one behaviour
MaxFrames == 2

\* ModCore::Tick calls made after shutdown in one behaviour
MaxShutdownTicks == 1

\* inbound link events, local deaths and level transitions, taken together, in
\* one behaviour of the whole-tick specification
MaxCoreEvents == 1

\* the same, in one behaviour of the cooldown specification
MaxCooldownEvents == 3

(***************************************************************************)
(* Character and string helpers                                            *)
(***************************************************************************)
Letters ==
    {"A","B","C","D","E","F","G","H","I","J","K","L","M",
     "N","O","P","Q","R","S","T","U","V","W","X","Y","Z"}

DigitChars == <<"0","1","2","3","4","5","6","7","8","9">>

\* std::isalpha on the characters the tables use (upper-case ASCII)
IsAlpha(c) == c \in Letters

IsDigit(c) == \E d \in 1..10 : DigitChars[d] = c

DigitVal(c) == (CHOOSE d \in 1..10 : DigitChars[d] = c) - 1

\* std::to_string(int) for n >= 0
RECURSIVE to_string(_)
to_string(n) ==
    IF n < 10 THEN <<DigitChars[n + 1]>>
    ELSE to_string(n \div 10) \o <<DigitChars[(n % 10) + 1]>>

\* std::stoi on a string that starts with decimal digits: value of the
\* leading digit run
RECURSIVE StoIAcc(_, _)
StoIAcc(s, acc) ==
    IF s = <<>> \/ ~IsDigit(Head(s)) THEN acc
    ELSE StoIAcc(Tail(s), acc * 10 + DigitVal(Head(s)))

StoI(s) == StoIAcc(s, 0)

\* length of the leading run of alphabetic characters
RECURSIVE AlphaRun(_)
AlphaRun(s) ==
    IF s = <<>> \/ ~IsAlpha(Head(s)) THEN 0 ELSE 1 + AlphaRun(Tail(s))

ExtractPrefix(tetId) == SubSeq(tetId, 1, AlphaRun(tetId))

ExtractNumber(tetId) ==
    LET i == AlphaRun(tetId)
    IN  IF i < Len(tetId) THEN StoI(SubSeq(tetId, i + 1, Len(tetId))) ELSE 0

\* a string literal of the tables: two leading characters and a number
Id(a, b, n) == <<a, b>> \o to_string(n)

Range(f) == {f[i] : i \in DOMAIN f}

(***************************************************************************)
(* Static tables of ItemMapping.cpp                                        *)
(***************************************************************************)
ALL_TETROMINOES ==
    <<
       Id("D","J",3), Id("M","T",1), Id("D","Z",1), Id("D","J",2), Id("D","J",1),
       Id("M","L",1), Id("D","I",1), Id("M","L",2), Id("D","L",1), Id("D","Z",2),
       Id("M","T",2), Id("D","Z",3), Id("N","L",1), Id("M","T",3), Id("M","Z",1),
       Id("M","Z",2), Id("M","T",4), Id("M","T",5), Id("N","Z",1), Id("D","I",2),
       Id("D","T",1), Id("D","T",2), Id("D","L",2), Id("D","Z",4), Id("N","L",2),
       Id("N","L",3), Id("N","Z",2), Id("N","L",4), Id("D","L",3), Id("N","T",1),
       Id("N","O",1), Id("D","T",3), Id("M","L",3), Id("M","Z",3), Id("M","S",1),
       Id("M","T",6), Id("M","T",7), Id("N","L",5), Id("M","S",2), Id("M","T",8),
       Id("M","Z",4), Id("M","T",9), Id("M","J",1), Id("N","T",2), Id("N","L",6),
       Id("N","T",3), Id("N","T",4), Id("D","T",4), Id("D","J",4), Id("N","L",7),
       Id("N","L",8), Id("N","I",1), Id("N","L",9), Id("N","S",1), Id("D","J",5),
       Id("N","Z",3), Id("N","I",2), Id("M","T",10), Id("M","L",4), Id("N","J",1),
       Id("N","I",3), Id("M","O",1), Id("M","I",1), Id("N","Z",4), Id("N","J",2),
       Id("N","I",4), Id("N","T",5), Id("N","Z",5), Id("N","O",2), Id("N","T",6),
       Id("N","S",2), Id("N","J",3), Id("N","O",3), Id("N","Z",6), Id("N","T",7),
       Id("N","T",8), Id("N","I",5), Id("N","S",3), Id("N","T",9), Id("N","I",6),
       Id("N","O",4), Id("N","O",5), Id("N","T",10), Id("N","S",4), Id("N","J",4),
       Id("N","O",6), Id("N","T",11), Id("N","O",7), Id("N","T",12), Id("N","L",10)
    >>

ALL_PURPLE_SIGILS ==
    <<
       Id("H","L",1), Id("H","L",2), Id("H","L",3), Id("H","L",4), Id("H","L",5),
       Id("H","L",6), Id("H","L",7), Id("H","L",8), Id("H","L",9), Id("H","L",10),
       Id("H","L",11), Id("H","L",12), Id("H","L",13), Id("H","L",14), Id("H","L",15),
       Id("H","L",16), Id("H","L",17), Id("H","L",18), Id("H","L",19), Id("H","L",20),
       Id("H","L",21), Id("H","L",22), Id("H","L",23), Id("H","L",24)
    >>

ALL_STARS ==
    <<
       Id("S","L",5), Id("S","L",2), Id("S","Z",3), Id("S","L",1), Id("S","L",4),
       Id("S","L",7), Id("S","L",6), Id("S","Z",8), Id("S","L",9), Id("S","L",10),
       Id("S","L",11), Id("S","L",12), Id("S","L",13), Id("S","Z",24), Id("S","Z",14),
       Id("S","Z",15), Id("S","L",16), Id("S","L",17), Id("S","L",18), Id("S","L",19),
       Id("S","L",20), Id("S","L",21), Id("S","L",22), Id("S","L",23), Id("S","L",27),
       Id("S","L",29), Id("S","L",30), Id("S","Z",26), Id("S","L",25), Id("S","L",28)
    >>

BASE_LOCATION_ID == 5505024

m_apItemIdToPrefix ==
    5505024 :> <<"D","J">> @@
    5505025 :> <<"D","Z">> @@
    5505026 :> <<"D","I">> @@
    5505027 :> <<"D","L">> @@
    5505028 :> <<"D","T">> @@
    5505029 :> <<"M","T">> @@
    5505030 :> <<"M","L">> @@
    5505031 :> <<"M","Z">> @@
    5505032 :> <<"M","S">> @@
    5505033 :> <<"M","J">> @@
    5505034 :> <<"M","O">> @@
    5505035 :> <<"M","I">> @@
    5505036 :> <<"N","L">> @@
    5505037 :> <<"N","Z">> @@
    5505038 :> <<"N","T">> @@
    5505039 :> <<"N","I">> @@
    5505040 :> <<"N","J">> @@
    5505041 :> <<"N","O">> @@
    5505042 :> <<"N","S">> @@
    5505043 :> <<"H","L">> @@
    5505044 :> <<"*","*">>

(***************************************************************************)
(* ItemMapping::BuildSequences                                             *)
(***************************************************************************)
\* the entries of ids whose prefix is p, in table order
WithPrefix(ids, p) ==
    LET HasPrefix(tetId) == ExtractPrefix(tetId) = p
    IN  SelectSeq(ids, HasPrefix)

\* insert x into a sequence sorted by ExtractNumber
RECURSIVE InsertByNumber(_, _)
InsertByNumber(sorted, x) ==
    IF sorted = <<>> THEN <<x>>
    ELSE IF ExtractNumber(x) < ExtractNumber(Head(sorted))
         THEN <<x>> \o sorted
         ELSE <<Head(sorted)>> \o InsertByNumber(Tail(sorted), x)

\* variant: the sequence is left in table order
SortByNumber_TableOrder(s) == s

\* std::sort with comparator ExtractNumber(a) < ExtractNumber(b)
RECURSIVE SortByNumber(_)
SortByNumber(s) ==
    IF s = <<>> THEN <<>>
    ELSE InsertByNumber(SortByNumber(Tail(s)), Head(s))

\* "**1" .. "**30"
StarSequence == [i \in 1..Len(ALL_STARS) |-> <<"*","*">> \o to_string(i)]

SequencePrefixes ==
    {ExtractPrefix(id) : id \in Range(ALL_TETROMINOES \o ALL_PURPLE_SIGILS)} \ {<<>>}

m_tetrominoSequences ==
    [p \in SequencePrefixes \cup {<<"*","*">>} |->
        IF p = <<"*","*">> THEN StarSequence
        ELSE SortByNumber(WithPrefix(ALL_TETROMINOES \o ALL_PURPLE_SIGILS, p))]

(***************************************************************************)
(* ItemMapping::BuildTables / BuildGameKeyMappings and the queries         *)
(***************************************************************************)
AllLocations == ALL_TETROMINOES \o ALL_PURPLE_SIGILS \o ALL_STARS

m_locationNameToId ==
    [id \in Range(AllLocations) |->
        BASE_LOCATION_ID +
        (CHOOSE i \in 1..Len(AllLocations) :
            /\ AllLocations[i] = id
            /\ \A j \in 1..Len(AllLocations) : AllLocations[j] = id => j <= i) - 1]

GetLocationId(tetrominoId) ==
    IF tetrominoId \in DOMAIN m_locationNameToId
    THEN m_locationNameToId[tetrominoId] ELSE -1

\* variant: only the last digit of the number goes into the key
StarGameKey_LastDigit(starId) == <<"*","*">> \o to_string(ExtractNumber(starId) % 10)

\* the store key BuildGameKeyMappings gives a star: "**" + std::to_string(num)
StarGameKey(starId) == <<"*","*">> \o to_string(ExtractNumber(starId))

m_modIdToGameKey == [starId \in Range(ALL_STARS) |-> StarGameKey(starId)]

m_gameKeyToModId ==
    [gameKey \in {StarGameKey(s) : s \in Range(ALL_STARS)} |->
        LET i == CHOOSE i \in 1..Len(ALL_STARS) :
                    /\ StarGameKey(ALL_STARS[i]) = gameKey
                    /\ \A j \in 1..Len(ALL_STARS) :
                          StarGameKey(ALL_STARS[j]) = gameKey => j <= i
        IN  ALL_STARS[i]]

ToGameKey(modId) ==
    IF modId \in DOMAIN m_modIdToGameKey THEN m_modIdToGameKey[modId] ELSE modId

FromGameKey(gameKey) ==
    IF gameKey \in DOMAIN m_gameKeyToModId THEN m_gameKeyToModId[gameKey] ELSE gameKey

\* value of lastConv before any call
NoConv == [kind |-> "none"]

\* IDs the core passes to ToGameKey: location IDs, the star IDs of the unified
\* sequence as GrantedItems holds them, and an ID without a location
ConvIdInputs ==
    Range(AllLocations) \cup Range(StarSequence) \cup {Id("E","L",1)}

\* keys the core passes to FromGameKey: what the store may hold
ConvKeyInputs ==
    Range(ALL_TETROMINOES) \cup Range(ALL_PURPLE_SIGILS)
        \cup {StarGameKey(s) : s \in Range(ALL_STARS)} \cup {Id("E","L",1)}

\* a call of ItemMapping::ToGameKey, and FromGameKey of what it returned
CallToGameKey ==
    /\ \E modId \in ConvIdInputs :
          lastConv' = [kind |-> "to", input |-> modId, result |-> ToGameKey(modId),
                       back |-> FromGameKey(ToGameKey(modId))]
    /\ UNCHANGED <<resolveVars, sessionVars, storeVars, linkVars, tickVars, luaVars,
                   coreVars,
                   handlerVars>>

\* a call of ItemMapping::FromGameKey, and ToGameKey of what it returned
CallFromGameKey ==
    /\ \E gameKey \in ConvKeyInputs :
          lastConv' = [kind |-> "from", input |-> gameKey,
                       result |-> FromGameKey(gameKey),
                       back |-> ToGameKey(FromGameKey(gameKey))]
    /\ UNCHANGED <<resolveVars, sessionVars, storeVars, linkVars, tickVars, luaVars,
                   coreVars,
                   handlerVars>>

IsPurpleSigil(id) == Len(id) >= 3 /\ id[1] = "H" /\ id[2] = "L"

IsStar(id) ==
    IF Len(id) < 3 THEN FALSE
    ELSE IF id[1] = "*" /\ id[2] = "*" THEN TRUE
    ELSE IF id[1] = "S" /\ (id[2] = "L" \/ id[2] = "Z") THEN TRUE
    ELSE FALSE

(***************************************************************************)
(* Item resolution                                                         *)
(***************************************************************************)
\* std::optional<std::string>
nullopt == <<>>
Some(x) == <<x>>

\* what operator[] of m_receivedCounts reads (default-constructed int is 0)
CountOf(counts, prefix) ==
    IF prefix \in DOMAIN counts THEN counts[prefix] ELSE 0

SetCount(counts, prefix, n) ==
    [p \in DOMAIN counts \cup {prefix} |-> IF p = prefix THEN n ELSE counts[p]]

\* variant: an unknown item ID is counted under the empty prefix
ResolveNextItem_CountsUnknown(counts, apItemId) ==
    IF apItemId \notin DOMAIN m_apItemIdToPrefix
    THEN [counts |-> SetCount(counts, <<>>, CountOf(counts, <<>>) + 1),
          result |-> nullopt]
    ELSE LET prefix == m_apItemIdToPrefix[apItemId]
             seq    == m_tetrominoSequences[prefix]
             count  == CountOf(counts, prefix) + 1
         IN  IF count > Len(seq)
             THEN [counts |-> SetCount(counts, prefix, count), result |-> nullopt]
             ELSE [counts |-> SetCount(counts, prefix, count), result |-> Some(seq[count])]

\* variant: the exhaustion test written as count >= seq.size()
ResolveNextItem_ExhaustOneEarly(counts, apItemId) ==
    IF apItemId \notin DOMAIN m_apItemIdToPrefix
    THEN [counts |-> counts, result |-> nullopt]
    ELSE LET prefix == m_apItemIdToPrefix[apItemId]
             seq    == m_tetrominoSequences[prefix]
             count  == CountOf(counts, prefix) + 1
         IN  IF count >= Len(seq)
             THEN [counts |-> SetCount(counts, prefix, count), result |-> nullopt]
             ELSE [counts |-> SetCount(counts, prefix, count), result |-> Some(seq[count])]

\* variant: the counter is only advanced when an item is returned
ResolveNextItem_NoCountWhenExhausted(counts, apItemId) ==
    IF apItemId \notin DOMAIN m_apItemIdToPrefix
    THEN [counts |-> counts, result |-> nullopt]
    ELSE LET prefix == m_apItemIdToPrefix[apItemId]
             seq    == m_tetrominoSequences[prefix]
             count  == CountOf(counts, prefix) + 1
         IN  IF count > Len(seq)
             THEN [counts |-> counts, result |-> nullopt]
             ELSE [counts |-> SetCount(counts, prefix, count), result |-> Some(seq[count])]

\* ItemMapping::ResolveNextItem: the new counter table and the returned value
ResolveNextItem(counts, apItemId) ==
    IF apItemId \notin DOMAIN m_apItemIdToPrefix
    THEN [counts |-> counts, result |-> nullopt]
    ELSE LET prefix == m_apItemIdToPrefix[apItemId]
         IN  IF prefix \notin DOMAIN m_tetrominoSequences
                \/ m_tetrominoSequences[prefix] = <<>>
             THEN [counts |-> counts, result |-> nullopt]
             ELSE LET seq   == m_tetrominoSequences[prefix]
                      count == CountOf(counts, prefix) + 1
                  IN  IF count > Len(seq)
                      THEN [counts |-> SetCount(counts, prefix, count),
                            result |-> nullopt]
                      ELSE [counts |-> SetCount(counts, prefix, count),
                            result |-> Some(seq[count])]

\* variant: the entry handed out is erased from the front of its sequence
SequenceWrites_Consume(apItemId) ==
    IF apItemId \notin DOMAIN m_apItemIdToPrefix THEN <<>>
    ELSE <<m_apItemIdToPrefix[apItemId]>>

\* the writes a ResolveNextItem call makes to m_tetrominoSequences, as the
\* prefixes whose sequence loses its front: none, the call looks the prefix up
\* with find and reads the sequence through a const reference
SequenceWrites(apItemId) == <<>>

\* variant: the counters are left as they are
ResetItemCounters_Keep(counts) == counts

\* ItemMapping::ResetItemCounters: m_receivedCounts.clear()
ResetItemCounters(counts) == <<>>

(***************************************************************************)
(* Resolution: the calls the network client makes on ItemMapping           *)
(***************************************************************************)
\* item IDs the server sends in the model: Golden J (one instance), Green I
\* (two instances), Star (thirty instances) and an ID outside the registry
ApItemIdInputs == {5505033, 5505026, 5505044, 5505045}

\* a newly sent item is resolved (all earlier items have been delivered)
ResolveNew(apItemId) ==
    /\ Len(resolveLog) = Len(serverItems)
    /\ Len(serverItems) < MaxServerItems
    /\ LET r == ResolveNextItem(m_receivedCounts, apItemId)
       IN  /\ m_receivedCounts' = r.counts
           /\ sequenceWrites' = sequenceWrites \o SequenceWrites(apItemId)
           /\ resolveLog' = Append(resolveLog, [id |-> apItemId, result |-> r.result])
           /\ origLog' = Append(origLog, r.result)
    /\ serverItems' = Append(serverItems, apItemId)
    /\ UNCHANGED <<sessionVars, storeVars, linkVars,
                   tickVars,
                   luaVars,
                   coreVars,
                   mapVars,
                   handlerVars>>

\* item IDs of the Green J scenario: Green J (0x540000) and an ID outside the
\* registry
ScenarioItemIds == {5505024, 5505045}

\* the server sends an item of the Green J scenario
ResolveScenario(apItemId) ==
    /\ Len(resolveLog) = Len(serverItems)
    /\ Len(serverItems) < MaxScenarioItems
    /\ LET r == ResolveNextItem(m_receivedCounts, apItemId)
       IN  /\ m_receivedCounts' = r.counts
           /\ sequenceWrites' = sequenceWrites \o SequenceWrites(apItemId)
           /\ resolveLog' = Append(resolveLog, [id |-> apItemId, result |-> r.result])
           /\ origLog' = Append(origLog, r.result)
    /\ serverItems' = Append(serverItems, apItemId)
    /\ UNCHANGED <<sessionVars, storeVars, linkVars,
                   tickVars,
                   luaVars,
                   coreVars,
                   mapVars,
                   handlerVars>>

\* after a reconnect the server replays its items in order
ResolveReplay ==
    /\ Len(resolveLog) < Len(serverItems)
    /\ LET apItemId == serverItems[Len(resolveLog) + 1]
           r        == ResolveNextItem(m_receivedCounts, apItemId)
       IN  /\ m_receivedCounts' = r.counts
           /\ sequenceWrites' = sequenceWrites \o SequenceWrites(apItemId)
           /\ resolveLog' = Append(resolveLog, [id |-> apItemId, result |-> r.result])
    /\ UNCHANGED <<serverItems, origLog, sessionVars, storeVars, linkVars,
                   tickVars,
                   luaVars,
                   coreVars,
                   mapVars,
                   handlerVars>>

\* (re)connect: ResetItemCounters, then the server starts its replay
Reconnect ==
    /\ m_receivedCounts' = ResetItemCounters(m_receivedCounts)
    /\ resolveLog' = <<>>
    /\ UNCHANGED <<sequenceWrites, serverItems, origLog, sessionVars, storeVars, linkVars,
                   tickVars,
                   luaVars,
                   coreVars,
                   mapVars,
                   handlerVars>>

InitResolve ==
    /\ m_receivedCounts = <<>>
    /\ sequenceWrites = <<>>
    /\ serverItems = <<>>
    /\ resolveLog = <<>>
    /\ origLog = <<>>

(***************************************************************************)
(* Session state: GrantItem / RevokeItem                                   *)
(***************************************************************************)
\* concrete IDs that resolution can hand to GrantItem in the model
GrantUniverse == {Id("D","J",1), Id("H","L",1), <<"*","*","5">>}

\* keys the host's CollectedTetrominos map may hold in the model: the above
\* and a bonus-puzzle key, which ItemMapping has no location for
KeyUniverse == GrantUniverse \cup {Id("E","L",1)}

\* value of lastPass when the last step was not a reconciliation call
NoPass == [called |-> FALSE]

\* variant: granting an ID that is already granted takes it away again
GrantItem_Toggle(tetrominoId) ==
    /\ GrantedItems' = IF tetrominoId \in GrantedItems
                       THEN GrantedItems \ {tetrominoId}
                       ELSE GrantedItems \cup {tetrominoId}
    /\ lastPass' = NoPass
    /\ UNCHANGED <<CheckedLocations, APSynced, RandomisePurpleSigils, RandomiseStars,
                   ReusableTetrominos, CurrentProgress, hostVars,
                   resolveVars, linkVars, tickVars,
                   luaVars,
                   coreVars,
                   mapVars,
                   handlerVars>>

GrantItem(tetrominoId) ==
    /\ GrantedItems' = GrantedItems \cup {tetrominoId}
    /\ lastPass' = NoPass
    /\ UNCHANGED <<CheckedLocations, APSynced, RandomisePurpleSigils, RandomiseStars,
                   ReusableTetrominos, CurrentProgress, hostVars,
                   resolveVars, linkVars,
                   tickVars,
                   luaVars,
                   coreVars,
                   mapVars,
                   handlerVars>>

RevokeItem(tetrominoId) ==
    /\ GrantedItems' = GrantedItems \ {tetrominoId}
    /\ CheckedLocations' = CheckedLocations \ {tetrominoId}
    /\ lastPass' = NoPass
    /\ UNCHANGED <<APSynced, RandomisePurpleSigils, RandomiseStars,
                   ReusableTetrominos, CurrentProgress, hostVars,
                   resolveVars, linkVars,
                   tickVars,
                   luaVars,
                   coreVars,
                   mapVars,
                   handlerVars>>

\* the network client delivers a received item: ResolveNextItem, and GrantItem
\* of the concrete ID when one is returned
ItemReceived(apItemId) ==
    /\ Len(resolveLog) = Len(serverItems)
    /\ Len(serverItems) < MaxServerItems
    /\ LET r == ResolveNextItem(m_receivedCounts, apItemId)
       IN  /\ m_receivedCounts' = r.counts
           /\ sequenceWrites' = sequenceWrites \o SequenceWrites(apItemId)
           /\ resolveLog' = Append(resolveLog, [id |-> apItemId, result |-> r.result])
           /\ origLog' = Append(origLog, r.result)
           /\ GrantedItems' = GrantedItems \cup {r.result[i] : i \in DOMAIN r.result}
    /\ serverItems' = Append(serverItems, apItemId)
    /\ lastPass' = NoPass
    /\ UNCHANGED <<CheckedLocations, APSynced, RandomisePurpleSigils, RandomiseStars,
                   ReusableTetrominos, CurrentProgress, hostVars, linkVars, tickVars,
                   luaVars,
                   coreVars,
                   mapVars,
                   handlerVars>>

\* the AP client reports the session synced after connecting
APSyncComplete ==
    /\ ~APSynced
    /\ APSynced' = TRUE
    /\ lastPass' = NoPass
    /\ UNCHANGED <<GrantedItems, CheckedLocations, RandomisePurpleSigils, RandomiseStars,
                   ReusableTetrominos, CurrentProgress, hostVars,
                   resolveVars, linkVars,
                   tickVars,
                   luaVars,
                   coreVars,
                   mapVars,
                   handlerVars>>

(***************************************************************************)
(* The host's CollectedTetrominos map                                      *)
(***************************************************************************)
\* TMap::Remove for a set of keys
TMapRemove(tmap, keys) == [k \in DOMAIN tmap \ keys |-> tmap[k]]

\* TMap::Add(key, value)
TMapAdd(tmap, key, value) ==
    [k \in DOMAIN tmap \cup {key} |-> IF k = key THEN value ELSE tmap[k]]

\* the game records a collected tetromino
HostCollect(gameKey) ==
    /\ gameKey \notin DOMAIN CollectedTetrominos
    /\ CollectedTetrominos' = TMapAdd(CollectedTetrominos, gameKey, FALSE)
    /\ lastPass' = NoPass
    /\ UNCHANGED <<sessionVars, progressReachable, resolveVars, linkVars,
                   tickVars,
                   luaVars,
                   coreVars,
                   mapVars,
                   handlerVars>>

\* the game marks a collected tetromino as used in a puzzle
HostUse(gameKey) ==
    /\ gameKey \in DOMAIN CollectedTetrominos
    /\ ~CollectedTetrominos[gameKey]
    /\ CollectedTetrominos' = TMapAdd(CollectedTetrominos, gameKey, TRUE)
    /\ lastPass' = NoPass
    /\ UNCHANGED <<sessionVars, progressReachable, resolveVars, linkVars,
                   tickVars,
                   luaVars,
                   coreVars,
                   mapVars,
                   handlerVars>>

(***************************************************************************)
(* InventorySync::EnforceCollectionState                                   *)
(***************************************************************************)
\* variant: every entry is looked up under its mod ID
LookupKey_AlwaysModId(gameKey) == FromGameKey(gameKey)

\* the key under which Phase 1 looks an entry up in GrantedItems
LookupKey(gameKey) ==
    LET modId == FromGameKey(gameKey)
    IN  IF IsStar(modId) THEN gameKey ELSE modId

\* variant: the map key is not translated before the registry is asked
ToRemoveGameKeys_Untranslated(tmap, granted, randPurple, randStars) ==
    {gameKey \in DOMAIN tmap :
        /\ gameKey # <<>>
        /\ ~(GetLocationId(gameKey) < 0)
        /\ ~(~randPurple /\ IsPurpleSigil(gameKey))
        /\ ~(~randStars /\ IsStar(gameKey))
        /\ gameKey \notin granted}

\* Phase 1, the scan: toRemoveGameKeys
ToRemoveGameKeys(tmap, granted, randPurple, randStars) ==
    {gameKey \in DOMAIN tmap :
        /\ gameKey # <<>>
        /\ LET modId == FromGameKey(gameKey)
           IN  /\ ~(GetLocationId(modId) < 0)
               /\ ~(~randPurple /\ IsPurpleSigil(modId))
               /\ ~(~randStars /\ IsStar(modId))
               /\ LookupKey(gameKey) \notin granted}

\* variant: the granted ID is translated in the wrong direction
ToAddGameKeys_WrongDirection(tmap, granted) ==
    {FromGameKey(id) : id \in granted} \ DOMAIN tmap

\* Phase 2: the keys of granted items that tmap->Find does not find
ToAddGameKeys(tmap, granted) ==
    {ToGameKey(id) : id \in granted} \ DOMAIN tmap

\* variant: the used entries are reset whatever the mode
ToResetGameKeys_IgnoreMode(tmap, reusable) == {k \in DOMAIN tmap : tmap[k] = TRUE}

\* Phase 3: the entries whose value is rewritten
ToResetGameKeys(tmap, reusable) ==
    IF reusable THEN {k \in DOMAIN tmap : tmap[k] = TRUE} ELSE {}

\* Phase 1, the removals: tmap->Remove for every collected key
RemoveKeys(pass, keys) ==
    [pass EXCEPT !.tmap = TMapRemove(pass.tmap, keys), !.removed = keys]

\* Phase 2, the additions: tmap->Add(key, false) for every missing key
AddKeys(pass, keys) ==
    [pass EXCEPT !.tmap = [k \in DOMAIN pass.tmap \cup keys |->
                              IF k \in keys THEN FALSE ELSE pass.tmap[k]],
                 !.added = keys]

\* variant: the reset writes the value it found
ResetKeys_KeepValue(pass, keys) == [pass EXCEPT !.reset = keys]

\* Phase 3, the resets: pair.Value = false for every used entry
ResetKeys(pass, keys) ==
    [pass EXCEPT !.tmap = [k \in DOMAIN pass.tmap |->
                              IF k \in keys THEN FALSE ELSE pass.tmap[k]],
                 !.reset = keys]

Phase1(pass, granted, randPurple, randStars) ==
    RemoveKeys(pass, ToRemoveGameKeys(pass.tmap, granted, randPurple, randStars))

Phase2(pass, granted) == AddKeys(pass, ToAddGameKeys(pass.tmap, granted))

Phase3(pass, reusable) == ResetKeys(pass, ToResetGameKeys(pass.tmap, reusable))

\* the three phases on the map: what was removed, added and reset, and the
\* resulting map
EnforcePhases(tmap, granted, randPurple, randStars, reusable) ==
    Phase3(Phase2(Phase1([tmap |-> tmap, removed |-> {}, added |-> {}, reset |-> {}],
                         granted, randPurple, randStars),
                  granted),
           reusable)

\* variant: the APSynced guard is missing
EnforceRuns_IgnoreSynced(progress, synced) == progress # "null"

\* does InventorySync::EnforceCollectionState get past its guards
EnforceRuns(progress, synced) == progress # "null" /\ synced

(***************************************************************************)
(* ModCore::EnforceCollectionState: FindProgressObject, then the pass      *)
(***************************************************************************)
\* FindProgressObject: CurrentProgress after the fresh acquisition
FindProgressObject(reachable) == IF reachable THEN "valid" ELSE "null"

\* what one call leaves behind: the map, and the record of its effects
ApplyPass(runs, r) ==
    /\ CollectedTetrominos' = IF runs THEN r.tmap ELSE CollectedTetrominos
    /\ lastPass' =
         [called   |-> TRUE,
          acquired |-> CurrentProgress' # "null",
          synced   |-> APSynced,
          ran      |-> runs,
          second   |-> lastPass.called /\ lastPass.ran /\ runs,
          before   |-> CollectedTetrominos,
          removed  |-> IF runs THEN r.removed ELSE {},
          added    |-> IF runs THEN r.added ELSE {},
          reset    |-> IF runs THEN r.reset ELSE {}]

ModCore_EnforceCollectionState ==
    /\ CurrentProgress' = FindProgressObject(progressReachable)
    /\ ApplyPass(CurrentProgress' # "null" /\ EnforceRuns(CurrentProgress', APSynced),
                 EnforcePhases(CollectedTetrominos, GrantedItems,
                               RandomisePurpleSigils, RandomiseStars,
                               ReusableTetrominos))
    /\ UNCHANGED <<GrantedItems, CheckedLocations, APSynced, RandomisePurpleSigils,
                   RandomiseStars, ReusableTetrominos, progressReachable, resolveVars,
                   linkVars,
                   tickVars,
                   luaVars,
                   coreVars,
                   mapVars,
                   handlerVars>>

(***************************************************************************)
(* EnforceCollectionState when operations on single keys throw             *)
(***************************************************************************)
\* keys of the failure scenario: what the game collects and the server grants
FaultKeys == {Id("D","J",1), Id("D","J",2), Id("H","L",1), <<"*","*","5">>}

\* variant: a removal that throws ends the removals
RemoveKeysFailing_Abort(pass, keys, failed) ==
    IF keys \cap failed # {}
    THEN [pass EXCEPT !.removed = {}]
    ELSE [pass EXCEPT !.tmap = TMapRemove(pass.tmap, keys), !.removed = keys]

\* Phase 1, the removals: the try block of a key in failed throws before the
\* entry is gone, the catch goes on with the next key
RemoveKeysFailing(pass, keys, failed) ==
    [pass EXCEPT !.tmap = TMapRemove(pass.tmap, keys \ failed),
                 !.removed = keys \ failed]

\* Phase 2, the additions: the try block of a key in failed throws before the
\* entry is there, the catch goes on with the next granted item
AddKeysFailing(pass, keys, failed) ==
    [pass EXCEPT !.tmap = [k \in DOMAIN pass.tmap \cup (keys \ failed) |->
                              IF k \in keys \ failed THEN FALSE ELSE pass.tmap[k]],
                 !.added = keys \ failed]

Phase1Failing(pass, granted, randPurple, randStars, failed) ==
    RemoveKeysFailing(pass, ToRemoveGameKeys(pass.tmap, granted, randPurple, randStars),
                      failed)

Phase2Failing(pass, granted, failed) ==
    AddKeysFailing(pass, ToAddGameKeys(pass.tmap, granted), failed)

EnforcePhasesFailing(tmap, granted, randPurple, randStars, reusable, failRemove, failAdd) ==
    Phase3(Phase2Failing(Phase1Failing([tmap |-> tmap, removed |-> {},
                                        added |-> {}, reset |-> {}],
                                       granted, randPurple, randStars, failRemove),
                         granted, failAdd),
           reusable)

\* what one call with failing keys leaves behind
ApplyPassFailing(runs, r, failRemove, failAdd) ==
    /\ CollectedTetrominos' = IF runs THEN r.tmap ELSE CollectedTetrominos
    /\ lastPass' =
         [called   |-> TRUE,
          acquired |-> CurrentProgress' # "null",
          synced   |-> APSynced,
          ran      |-> runs,
          second   |-> lastPass.called /\ lastPass.ran /\ runs,
          before   |-> CollectedTetrominos,
          removed  |-> IF runs THEN r.removed ELSE {},
          added    |-> IF runs THEN r.added ELSE {},
          reset    |-> IF runs THEN r.reset ELSE {},
          failedRemove |-> IF runs THEN failRemove ELSE {},
          failedAdd    |-> IF runs THEN failAdd ELSE {}]

\* ModCore::EnforceCollectionState, the operations on some keys throwing
EnforceWithFailures ==
    /\ CurrentProgress' = FindProgressObject(progressReachable)
    /\ \E failRemove \in SUBSET ToRemoveGameKeys(CollectedTetrominos, GrantedItems,
                                                RandomisePurpleSigils, RandomiseStars),
          failAdd \in SUBSET ToAddGameKeys(CollectedTetrominos, GrantedItems) :
          ApplyPassFailing(CurrentProgress' # "null"
                              /\ EnforceRuns(CurrentProgress', APSynced),
                           EnforcePhasesFailing(CollectedTetrominos, GrantedItems,
                                                RandomisePurpleSigils, RandomiseStars,
                                                ReusableTetrominos, failRemove, failAdd),
                           failRemove, failAdd)
    /\ UNCHANGED <<GrantedItems, CheckedLocations, APSynced, RandomisePurpleSigils,
                   RandomiseStars, ReusableTetrominos, progressReachable, resolveVars,
                   linkVars,
                   tickVars,
                   luaVars,
                   coreVars,
                   mapVars,
                   handlerVars>>

\* the host's world is loaded or torn down (level transition, GC)
HostWorldChange ==
    /\ progressReachable' = ~progressReachable
    /\ lastPass' = NoPass
    /\ UNCHANGED <<sessionVars, CollectedTetrominos, resolveVars, linkVars,
                   tickVars,
                   luaVars,
                   coreVars,
                   mapVars,
                   handlerVars>>

(***************************************************************************)
(* DeathLinkHandler                                                        *)
(***************************************************************************)
\* variant: the hook does not look at the echo-suppress flag
SetDeathHook_NoSuppress(st) ==
    IF ~st.enabled THEN st ELSE [st EXCEPT !.send = TRUE]

\* the SetDeath hook lambda of DeathLinkHandler::RegisterHooks on the flags
\* [enabled, flag, send]
SetDeathHook(st) ==
    IF ~st.enabled THEN st
    ELSE IF st.flag THEN [st EXCEPT !.flag = FALSE]
    ELSE [st EXCEPT !.send = TRUE]

\* variant: the echo-suppress flag is not cleared when the attempt fails
ProcessPendingDeathLink_KeepFlag(st, player, dead, haveLocation, mine, teleportOk) ==
    IF ~st.recv THEN [st |-> st, outcome |-> "idle", attempted |-> FALSE]
    ELSE LET s1 == [st EXCEPT !.recv = FALSE]
         IN  IF ~player THEN [st |-> s1, outcome |-> "noPlayer", attempted |-> FALSE]
             ELSE IF dead THEN [st |-> s1, outcome |-> "alreadyDead", attempted |-> FALSE]
             ELSE LET attempt == haveLocation /\ mine
                      killed  == attempt /\ teleportOk
                      sSet    == IF attempt THEN [s1 EXCEPT !.flag = TRUE] ELSE s1
                  IN  IF ~killed
                      THEN [st |-> [sSet EXCEPT !.deferred = TRUE],
                            outcome |-> "deferred", attempted |-> attempt]
                      ELSE [st |-> sSet, outcome |-> "killed", attempted |-> attempt]

\* variant: a request that finds no player entity is deferred
ProcessPendingDeathLink_DeferNoPlayer(st, player, dead, haveLocation, mine, teleportOk) ==
    IF ~st.recv THEN [st |-> st, outcome |-> "idle", attempted |-> FALSE]
    ELSE LET s1 == [st EXCEPT !.recv = FALSE]
         IN  IF ~player THEN [st |-> [s1 EXCEPT !.deferred = TRUE],
                              outcome |-> "noPlayer", attempted |-> FALSE]
             ELSE IF dead THEN [st |-> s1, outcome |-> "alreadyDead", attempted |-> FALSE]
             ELSE LET attempt == haveLocation /\ mine
                      killed  == attempt /\ teleportOk
                  IN  IF ~killed
                      THEN [st |-> [s1 EXCEPT !.deferred = TRUE],
                            outcome |-> "deferred", attempted |-> attempt]
                      ELSE [st |-> [s1 EXCEPT !.flag = TRUE],
                            outcome |-> "killed", attempted |-> attempt]

\* variant: a request that finds the player already dead is deferred
ProcessPendingDeathLink_DeferAlreadyDead(st, player, dead, haveLocation, mine, teleportOk) ==
    IF ~st.recv THEN [st |-> st, outcome |-> "idle", attempted |-> FALSE]
    ELSE LET s1 == [st EXCEPT !.recv = FALSE]
         IN  IF ~player THEN [st |-> s1, outcome |-> "noPlayer", attempted |-> FALSE]
             ELSE IF dead THEN [st |-> [s1 EXCEPT !.deferred = TRUE],
                                outcome |-> "alreadyDead", attempted |-> FALSE]
             ELSE LET attempt == haveLocation /\ mine
                      killed  == attempt /\ teleportOk
                  IN  IF ~killed
                      THEN [st |-> [s1 EXCEPT !.deferred = TRUE],
                            outcome |-> "deferred", attempted |-> attempt]
                      ELSE [st |-> [s1 EXCEPT !.flag = TRUE],
                            outcome |-> "killed", attempted |-> attempt]

\* DeathLinkHandler::ProcessPendingDeathLink on the flags
\* [recv, flag, deferred], given what the host answers:
\* player (controller and pawn found), dead (bIsDead read as true),
\* haveLocation (ReadActorPosition), mine (FindAllOf finds one),
\* teleportOk (TeleportMineTo returns true)
ProcessPendingDeathLink(st, player, dead, haveLocation, mine, teleportOk) ==
    IF ~st.recv THEN [st |-> st, outcome |-> "idle", attempted |-> FALSE]
    ELSE LET s1 == [st EXCEPT !.recv = FALSE]
         IN  IF ~player THEN [st |-> s1, outcome |-> "noPlayer", attempted |-> FALSE]
             ELSE IF dead THEN [st |-> s1, outcome |-> "alreadyDead", attempted |-> FALSE]
             ELSE LET haveMine == haveLocation /\ mine
                      attempt  == haveMine /\ haveLocation
                      killed   == attempt /\ teleportOk
                      \* flag set immediately before the attempt ...
                      sSet == IF attempt THEN [s1 EXCEPT !.flag = TRUE] ELSE s1
                      \* ... and cleared when the attempt did not kill
                      s2   == IF attempt /\ ~killed
                              THEN [sSet EXCEPT !.flag = FALSE] ELSE sSet
                  IN  IF ~killed
                      THEN [st |-> [s2 EXCEPT !.deferred = TRUE],
                            outcome |-> "deferred", attempted |-> attempt]
                      ELSE [st |-> s2, outcome |-> "killed", attempted |-> attempt]

\* variant: the outbound flag is read without being cleared
DrainPendingSend_KeepFlag(send, enabled) ==
    [send |-> send, calls |-> IF send /\ enabled THEN 1 ELSE 0]

\* the outbound half of ModCore::ProcessDeathLinks: PendingDeathLinkSend
\* afterwards and the number of SendDeathLink calls made
DrainPendingSend(send, enabled) ==
    [send |-> FALSE, calls |-> IF send /\ enabled THEN 1 ELSE 0]

\* value of lastEvent before any step
NoEvent == [kind |-> "none"]

linkFlags == <<DeathLinkEnabled, IsDeathLinkDeath, PendingDeathLinkSend,
               PendingDeathLinkReceive, PendingDeferredDeathLink>>

\* the network client delivers an inbound link event
ReceiveDeathLink ==
    /\ DeathLinkEnabled
    /\ inboundCount < MaxInbound
    /\ PendingDeathLinkReceive' = TRUE
    /\ inboundCount' = inboundCount + 1
    /\ lastEvent' = [kind |-> "inbound"]
    /\ UNCHANGED <<DeathLinkEnabled, IsDeathLinkDeath, PendingDeathLinkSend,
                   PendingDeferredDeathLink, playerPresent, bIsDead, minePresent,
                   mineOnPlayer, lastOutcome, enactCount, consumeCount,
                   localDeathCount, sendCount,
                   sessionVars, storeVars, resolveVars,
                   tickVars,
                   luaVars,
                   coreVars,
                   mapVars,
                   handlerVars>>

\* ModCore::ProcessDeathLinks: drain the inbound request, then the outbound flag.
\* A teleported mine explodes on the host's next frame, before the next gated tick.
ModCore_ProcessDeathLinks ==
    /\ ~mineOnPlayer
    /\ \E haveLocation \in BOOLEAN, teleportOk \in BOOLEAN :
         LET st0 == [recv |-> PendingDeathLinkReceive, flag |-> IsDeathLinkDeath,
                     deferred |-> PendingDeferredDeathLink]
             r   == IF DeathLinkEnabled
                    THEN ProcessPendingDeathLink(st0, playerPresent, bIsDead,
                                                 haveLocation, minePresent, teleportOk)
                    ELSE [st |-> st0, outcome |-> "idle", attempted |-> FALSE]
             sent == DrainPendingSend(PendingDeathLinkSend, DeathLinkEnabled).calls = 1
         IN  /\ PendingDeathLinkReceive' = r.st.recv
             /\ IsDeathLinkDeath' = r.st.flag
             /\ PendingDeferredDeathLink' = r.st.deferred
             /\ PendingDeathLinkSend' =
                   DrainPendingSend(PendingDeathLinkSend, DeathLinkEnabled).send
             /\ mineOnPlayer' = (r.outcome = "killed")
             /\ enactCount' = IF r.outcome = "killed" THEN enactCount + 1 ELSE enactCount
             /\ lastOutcome' = IF r.outcome = "idle" THEN lastOutcome ELSE r.outcome
             /\ sendCount' = IF sent THEN sendCount + 1 ELSE sendCount
             /\ lastEvent' = [kind |-> "process", outcome |-> r.outcome,
                              attempted |-> r.attempted,
                              flagBefore |-> IsDeathLinkDeath, sent |-> sent]
    /\ UNCHANGED <<DeathLinkEnabled, playerPresent, bIsDead, minePresent,
                   inboundCount, consumeCount, localDeathCount,
                   sessionVars, storeVars, resolveVars,
                   tickVars,
                   luaVars,
                   coreVars,
                   mapVars,
                   handlerVars>>

\* the game calls SetDeath on the player character: cause is "link" when the
\* teleported mine explodes, "local" for any other death
SetDeathCall(cause) ==
    /\ playerPresent /\ ~bIsDead
    /\ (cause = "link") = mineOnPlayer
    /\ cause = "local" => localDeathCount < MaxLocalDeaths
    /\ LET st == SetDeathHook([enabled |-> DeathLinkEnabled, flag |-> IsDeathLinkDeath,
                               send |-> PendingDeathLinkSend])
       IN  /\ IsDeathLinkDeath' = st.flag
           /\ PendingDeathLinkSend' = st.send
           /\ consumeCount' = IF IsDeathLinkDeath /\ ~st.flag
                              THEN consumeCount + 1 ELSE consumeCount
    /\ bIsDead' = TRUE
    /\ mineOnPlayer' = FALSE
    /\ localDeathCount' = IF cause = "local" THEN localDeathCount + 1 ELSE localDeathCount
    /\ lastEvent' = [kind |-> "hook", cause |-> cause,
                     flagBefore |-> IsDeathLinkDeath, sendBefore |-> PendingDeathLinkSend]
    /\ UNCHANGED <<DeathLinkEnabled, PendingDeathLinkReceive, PendingDeferredDeathLink,
                   playerPresent, minePresent, lastOutcome, inboundCount, enactCount,
                   sendCount, sessionVars, storeVars, resolveVars,
                   tickVars,
                   luaVars,
                   coreVars,
                   mapVars,
                   cadenceVars, goalVars, scanVars>>

SetDeath(cause) == SetDeathCall(cause) /\ UNCHANGED deathObsVars

\* the same call, with the deaths counted that the hook saw as local ones:
\* link enabled and IsDeathLinkDeath clear
SetDeathCounted(cause) ==
    /\ SetDeathCall(cause)
    /\ LET genuine == cause = "local" /\ DeathLinkEnabled /\ ~IsDeathLinkDeath
       IN  /\ genuineDeathCount' = IF genuine THEN genuineDeathCount + 1
                                   ELSE genuineDeathCount
           /\ sendCountAtDefeat' = IF genuine THEN sendCount ELSE sendCountAtDefeat

\* the player respawns
Respawn ==
    /\ bIsDead
    /\ bIsDead' = FALSE
    /\ lastEvent' = [kind |-> "host"]
    /\ UNCHANGED <<linkFlags, playerPresent, minePresent, mineOnPlayer, lastOutcome,
                   inboundCount, enactCount, consumeCount, localDeathCount, sendCount,
                   sessionVars, storeVars, resolveVars,
                   tickVars,
                   luaVars,
                   coreVars,
                   mapVars,
                   handlerVars>>

\* the level changes: the player entity and the mines come and go
HostLevelChange ==
    /\ ~mineOnPlayer
    /\ \E p \in BOOLEAN, m \in BOOLEAN :
         /\ <<p, m>> # <<playerPresent, minePresent>>
         /\ playerPresent' = p
         /\ minePresent' = m
    /\ bIsDead' = FALSE
    /\ lastEvent' = [kind |-> "host"]
    /\ UNCHANGED <<linkFlags, mineOnPlayer, lastOutcome,
                   inboundCount, enactCount, consumeCount, localDeathCount, sendCount,
                   sessionVars, storeVars, resolveVars,
                   tickVars,
                   luaVars,
                   coreVars,
                   mapVars,
                   handlerVars>>

(***************************************************************************)
(* ModCore::Tick: level transition cooldown and deferred retry             *)
(***************************************************************************)
\* variant: the handler sets the latch during a cooldown but lets the tick go on
HandleLevelTransitionCooldown_NoSkip(st) ==
    IF st.cooldown
    THEN [st |-> [st EXCEPT !.wasActive = TRUE], skip |-> FALSE, rearmed |-> FALSE]
    ELSE IF st.wasActive
         THEN IF st.deferred /\ st.enabled
              THEN [st |-> [st EXCEPT !.wasActive = FALSE, !.deferred = FALSE,
                                      !.recv = TRUE],
                    skip |-> FALSE, rearmed |-> TRUE]
              ELSE [st |-> [st EXCEPT !.wasActive = FALSE],
                    skip |-> FALSE, rearmed |-> FALSE]
         ELSE [st |-> st, skip |-> FALSE, rearmed |-> FALSE]

\* variant: the "was active" latch is not reset when the expiry is handled
HandleLevelTransitionCooldown_KeepLatch(st) ==
    IF st.cooldown
    THEN [st |-> [st EXCEPT !.wasActive = TRUE], skip |-> TRUE, rearmed |-> FALSE]
    ELSE IF st.wasActive /\ st.deferred /\ st.enabled
         THEN [st |-> [st EXCEPT !.deferred = FALSE, !.recv = TRUE],
               skip |-> FALSE, rearmed |-> TRUE]
         ELSE [st |-> st, skip |-> FALSE, rearmed |-> FALSE]

\* ModCore::HandleLevelTransitionCooldown on
\* [cooldown, wasActive, deferred, recv, enabled]; skip is its return value
HandleLevelTransitionCooldown(st) ==
    IF st.cooldown
    THEN [st |-> [st EXCEPT !.wasActive = TRUE], skip |-> TRUE, rearmed |-> FALSE]
    ELSE IF st.wasActive
         THEN IF st.deferred /\ st.enabled
              THEN [st |-> [st EXCEPT !.wasActive = FALSE, !.deferred = FALSE,
                                      !.recv = TRUE],
                    skip |-> FALSE, rearmed |-> TRUE]
              ELSE [st |-> [st EXCEPT !.wasActive = FALSE],
                    skip |-> FALSE, rearmed |-> FALSE]
         ELSE [st |-> st, skip |-> FALSE, rearmed |-> FALSE]

\* what ProcessDeathLinks does with the flags the cooldown handler left
TickDeathLinks(h, haveLocation, teleportOk) ==
    IF h.skip \/ ~DeathLinkEnabled
    THEN [st |-> [recv |-> h.st.recv, flag |-> IsDeathLinkDeath,
                  deferred |-> h.st.deferred],
          outcome |-> "idle", attempted |-> FALSE]
    ELSE ProcessPendingDeathLink([recv |-> h.st.recv, flag |-> IsDeathLinkDeath,
                                  deferred |-> h.st.deferred],
                                 playerPresent, bIsDead, haveLocation, minePresent,
                                 teleportOk)

\* the calls ModCore::Tick makes after HandleLevelTransitionCooldown
GatedSteps ==
    {"ProcessDeferredProgressRefresh", "ProcessDeathLinks", "ProcessPending",
     "ProcessTetrominoScan", "EnforceVisibilityAndPickups", "RefreshVisibility",
     "ProcessPendingFenceOpens", "EnforceCollectionState", "TickGoalDetection",
     "CheckGoalCompletion"}

\* those of them a tick reaches: none when the handler returned true
StepsRun(skip) == IF skip THEN {} ELSE GatedSteps

\* the effects of one gated tick on the link state
ApplyTick(h, r) ==
    /\ m_levelTransitionCooldownWasActive' = h.st.wasActive
    /\ PendingDeathLinkReceive' = r.st.recv
    /\ IsDeathLinkDeath' = r.st.flag
    /\ PendingDeferredDeathLink' = r.st.deferred
    /\ PendingDeathLinkSend' =
          IF h.skip THEN PendingDeathLinkSend
          ELSE DrainPendingSend(PendingDeathLinkSend, DeathLinkEnabled).send
    /\ mineOnPlayer' = (r.outcome = "killed")
    /\ enactCount' = IF r.outcome = "killed" THEN enactCount + 1 ELSE enactCount
    /\ lastOutcome' = IF r.outcome = "idle" THEN lastOutcome ELSE r.outcome
    /\ sendCount' =
          IF h.skip THEN sendCount
          ELSE sendCount + DrainPendingSend(PendingDeathLinkSend, DeathLinkEnabled).calls
    /\ rearmCount' = IF h.rearmed THEN rearmCount + 1 ELSE rearmCount
    /\ deferredUnenacted' = CASE r.outcome = "deferred" -> TRUE
                              [] r.outcome = "killed"   -> FALSE
                              [] OTHER                  -> deferredUnenacted
    /\ lastEvent' = [kind |-> "tick", skipped |-> h.skip,
                     expired |-> ~inLevelTransitionCooldown
                                 /\ m_levelTransitionCooldownWasActive,
                     rearmed |-> h.rearmed,
                     recvBefore |-> PendingDeathLinkReceive,
                     deferredBefore |-> PendingDeferredDeathLink,
                     deferredMid |-> h.st.deferred,
                     flagBefore |-> IsDeathLinkDeath,
                     sendBefore |-> PendingDeathLinkSend,
                     sendCalls |-> IF h.skip THEN 0
                                   ELSE DrainPendingSend(PendingDeathLinkSend,
                                                         DeathLinkEnabled).calls,
                     outcome |-> r.outcome, attempted |-> r.attempted,
                     steps |-> StepsRun(h.skip)]

\* one gated pass of ModCore::Tick over the link state:
\* HandleLevelTransitionCooldown, then (unless it returned true) ProcessDeathLinks.
\* A teleported mine explodes on the host's next frame, before the next gated tick.
ModCore_Tick ==
    /\ ~mineOnPlayer
    /\ \E haveLocation \in BOOLEAN, teleportOk \in BOOLEAN :
         ApplyTick(HandleLevelTransitionCooldown(
                       [cooldown |-> inLevelTransitionCooldown,
                        wasActive |-> m_levelTransitionCooldownWasActive,
                        deferred |-> PendingDeferredDeathLink,
                        recv |-> PendingDeathLinkReceive,
                        enabled |-> DeathLinkEnabled]),
                   TickDeathLinks(HandleLevelTransitionCooldown(
                       [cooldown |-> inLevelTransitionCooldown,
                        wasActive |-> m_levelTransitionCooldownWasActive,
                        deferred |-> PendingDeferredDeathLink,
                        recv |-> PendingDeathLinkReceive,
                        enabled |-> DeathLinkEnabled]), haveLocation, teleportOk))
    /\ UNCHANGED <<DeathLinkEnabled, playerPresent, bIsDead, minePresent,
                   inboundCount, consumeCount, localDeathCount,
                   inLevelTransitionCooldown, transitionCount, expiryCount,
                   sessionVars, storeVars, resolveVars,
                   luaVars,
                   coreVars,
                   mapVars,
                   handlerVars>>

\* a level transition begins: the cooldown starts, the player entity and the
\* mines of the new level replace those of the old one
LevelTransition ==
    /\ ~mineOnPlayer
    /\ transitionCount < MaxTransitions
    /\ transitionCount' = transitionCount + 1
    /\ inLevelTransitionCooldown' = TRUE
    /\ playerPresent' \in BOOLEAN
    /\ minePresent' \in BOOLEAN
    /\ bIsDead' = FALSE
    /\ lastEvent' = [kind |-> "host"]
    /\ UNCHANGED <<linkFlags, mineOnPlayer, lastOutcome,
                   inboundCount, enactCount, consumeCount, localDeathCount, sendCount,
                   m_levelTransitionCooldownWasActive, expiryCount, rearmCount,
                   deferredUnenacted, sessionVars, storeVars, resolveVars,
                   luaVars,
                   coreVars,
                   mapVars,
                   handlerVars>>

\* the cooldown's wall-clock time has elapsed; it spans many tick intervals,
\* so a gated tick has seen it active
CooldownExpire ==
    /\ inLevelTransitionCooldown
    /\ m_levelTransitionCooldownWasActive
    /\ inLevelTransitionCooldown' = FALSE
    /\ expiryCount' = expiryCount + 1
    /\ lastEvent' = [kind |-> "host"]
    /\ UNCHANGED <<linkFlags, playerPresent, bIsDead, minePresent, mineOnPlayer,
                   lastOutcome, inboundCount, enactCount, consumeCount,
                   localDeathCount, sendCount,
                   m_levelTransitionCooldownWasActive, transitionCount, rearmCount,
                   deferredUnenacted, sessionVars, storeVars, resolveVars,
                   luaVars,
                   coreVars,
                   mapVars,
                   handlerVars>>

(***************************************************************************)
(* TickScheduler                                                           *)
(***************************************************************************)
TICK_INTERVAL_MS == 200

\* std::chrono::duration_cast<milliseconds>(now - m_lastTick).count()
ElapsedMs(now, lastTick) == (now - lastTick) \div TicksPerMs

\* variant: the timer is restarted by every call
ShouldTick_RestartEveryCall(lastTick, now) ==
    IF lastTick = 0 THEN [lastTick |-> now, result |-> TRUE]
    ELSE [lastTick |-> now, result |-> ElapsedMs(now, lastTick) >= TICK_INTERVAL_MS]

\* TickScheduler::ShouldTick: m_lastTick afterwards and the value returned
ShouldTick(lastTick, now) ==
    IF lastTick = 0 THEN [lastTick |-> now, result |-> TRUE]
    ELSE IF ElapsedMs(now, lastTick) >= TICK_INTERVAL_MS
         THEN [lastTick |-> now, result |-> TRUE]
         ELSE [lastTick |-> lastTick, result |-> FALSE]

\* value of lastSched before any step
NoSched == [kind |-> "none"]

\* the effects of one ShouldTick call, r being what it computed
ApplyShouldTick(r) ==
    /\ m_lastTick' = r.lastTick
    /\ calledBefore' = TRUE
    /\ lastFireAt' = IF r.result THEN steadyNow ELSE lastFireAt
    /\ lastSched' = [kind |-> "call", first |-> ~calledBefore,
                     prevFire |-> lastFireAt, result |-> r.result]

\* a call of TickScheduler::ShouldTick
Sched_ShouldTick ==
    /\ ApplyShouldTick(ShouldTick(m_lastTick, steadyNow))
    /\ UNCHANGED <<steadyNow, m_frame, m_shuttingDown, m_goalCompleted, m_goalSent,
                   pollCount, goalSendCount, shutdownTicks,
                   resolveVars, sessionVars, storeVars, linkVars, tickVars, luaVars,
                   mapVars,
                   handlerVars>>

\* a call of TickScheduler::Advance
Sched_Advance ==
    /\ m_frame < MaxFrames
    /\ m_frame' = m_frame + 1
    /\ lastSched' = [kind |-> "advance"]
    /\ UNCHANGED <<steadyNow, m_lastTick, m_shuttingDown, m_goalCompleted, m_goalSent,
                   calledBefore, lastFireAt, pollCount, goalSendCount, shutdownTicks,
                   resolveVars, sessionVars, storeVars, linkVars, tickVars, luaVars,
                   mapVars,
                   handlerVars>>

\* wall-clock time the steady clock may advance by between two calls: half an
\* interval, one clock unit less, one clock unit more
ClockSteps ==
    {(TICK_INTERVAL_MS * TicksPerMs) \div 2 + d : d \in {-1, 0, 1}}

\* the last clock reading of a behaviour
MaxClock == MaxIntervals * TICK_INTERVAL_MS * TicksPerMs + TicksPerMs

\* wall-clock time passes, by one of the given amounts
ClockElapseBy(steps) ==
    /\ \E d \in steps :
         /\ steadyNow + d <= MaxClock
         /\ steadyNow' = steadyNow + d
    /\ lastSched' = [kind |-> "clock"]
    /\ UNCHANGED <<m_lastTick, m_frame, m_shuttingDown, m_goalCompleted, m_goalSent,
                   calledBefore, lastFireAt, pollCount, goalSendCount, shutdownTicks,
                   resolveVars, sessionVars, storeVars, linkVars, tickVars, luaVars,
                   mapVars,
                   handlerVars>>

ClockElapse == ClockElapseBy(ClockSteps)

\* one whole tick interval of wall-clock time passes
IntervalElapses == ClockElapseBy({TICK_INTERVAL_MS * TicksPerMs})

(***************************************************************************)
(* ModCore::Tick, whole                                                    *)
(***************************************************************************)
\* variant: the shutdown flag is not looked at
TickBailsOut_Never(shuttingDown) == FALSE

\* the check at the top of ModCore::Tick
TickBailsOut(shuttingDown) == shuttingDown

\* what HandleLevelTransitionCooldown reads
CooldownInput ==
    [cooldown |-> inLevelTransitionCooldown,
     wasActive |-> m_levelTransitionCooldownWasActive,
     deferred |-> PendingDeferredDeathLink,
     recv |-> PendingDeathLinkReceive,
     enabled |-> DeathLinkEnabled]

\* variant: m_goalSent is not looked at
CheckGoalCompletion_NoLatch(completed) ==
    /\ m_goalCompleted' = completed
    /\ m_goalSent' = (m_goalSent \/ completed)
    /\ goalSendCount' = IF completed THEN goalSendCount + 1 ELSE goalSendCount

\* ModCore::CheckGoalCompletion, after TickGoalDetection reported completed
CheckGoalCompletion(completed) ==
    /\ m_goalCompleted' = completed
    /\ m_goalSent' = (m_goalSent \/ completed)
    /\ goalSendCount' = IF completed /\ ~m_goalSent
                        THEN goalSendCount + 1 ELSE goalSendCount

\* no tick has run yet
NoCadence ==
    [driver |-> "none", visibility |-> FALSE, reconcile |-> FALSE,
     aloneBefore |-> FALSE]

\* record which of EnforceVisibility and EnforceCollectionState a tick called
NoteCadence(driver, visibility, reconcile) ==
    /\ lastCadence' = [driver |-> driver,
                       visibility |-> visibility, reconcile |-> reconcile,
                       aloneBefore |-> visibilityAloneSince]
    /\ visibilityAloneSince' =
          IF reconcile THEN FALSE ELSE (visibilityAloneSince \/ visibility)

\* the part of ModCore::Tick behind the ShouldTick gate, up to the call of
\* TickGoalDetection: cooldown handler, link processing, reconciliation
GatedTickToGoal(h, haveLocation, teleportOk) ==
    /\ ApplyTick(h, TickDeathLinks(h, haveLocation, teleportOk))
    /\ NoteCadence("Tick", ~h.skip /\ APSynced, ~h.skip)
    /\ UNCHANGED m_tickCount
    /\ IF h.skip
       THEN UNCHANGED <<CurrentProgress, CollectedTetrominos, lastPass>>
       ELSE /\ CurrentProgress' = FindProgressObject(progressReachable)
            /\ ApplyPass(CurrentProgress' # "null"
                            /\ EnforceRuns(CurrentProgress', APSynced),
                         EnforcePhases(CollectedTetrominos, GrantedItems,
                                       RandomisePurpleSigils, RandomiseStars,
                                       ReusableTetrominos))

\* the gated part with goal detection reduced to its result: detected or not
GatedTick(h, haveLocation, teleportOk) ==
    /\ GatedTickToGoal(h, haveLocation, teleportOk)
    /\ IF h.skip
       THEN UNCHANGED <<m_goalCompleted, m_goalSent, goalSendCount>>
       ELSE \E detected \in BOOLEAN :
               CheckGoalCompletion(m_goalCompleted \/ detected)
    /\ UNCHANGED <<goalVars, scanVars, deathObsVars>>

\* ModCore::Tick: shutdown check, Advance, PollAPClient, ShouldTick gate, and
\* the gated part.  A teleported mine explodes before the next frame.
ModCore_FullTick ==
    /\ m_shuttingDown => shutdownTicks < MaxShutdownTicks
    /\ shutdownTicks' = IF m_shuttingDown THEN shutdownTicks + 1 ELSE shutdownTicks
    /\ IF TickBailsOut(m_shuttingDown)
       THEN UNCHANGED <<m_frame, pollCount, m_lastTick, calledBefore, lastFireAt,
                        lastSched, m_goalCompleted, m_goalSent, goalSendCount,
                        CurrentProgress, CollectedTetrominos, lastPass,
                        linkFlags, mineOnPlayer, lastEvent, lastOutcome, enactCount,
                        sendCount, m_levelTransitionCooldownWasActive, rearmCount,
                        deferredUnenacted,
                        handlerVars>>
       ELSE /\ m_frame < MaxFrames
            /\ ~mineOnPlayer
            /\ m_frame' = m_frame + 1
            /\ pollCount' = pollCount + 1
            /\ ApplyShouldTick(ShouldTick(m_lastTick, steadyNow))
            /\ IF ShouldTick(m_lastTick, steadyNow).result
               THEN /\ \E haveLocation \in BOOLEAN, teleportOk \in BOOLEAN :
                          GatedTick(HandleLevelTransitionCooldown(CooldownInput),
                                    haveLocation, teleportOk)
                    /\ UNCHANGED DeathLinkEnabled
               ELSE UNCHANGED <<m_goalCompleted, m_goalSent, goalSendCount,
                                CurrentProgress, CollectedTetrominos, lastPass,
                                linkFlags, mineOnPlayer, lastEvent, lastOutcome,
                                enactCount, sendCount,
                                m_levelTransitionCooldownWasActive, rearmCount,
                                deferredUnenacted,
                                handlerVars>>
    /\ UNCHANGED <<steadyNow, m_shuttingDown, playerPresent, bIsDead, minePresent,
                   inboundCount, consumeCount, localDeathCount,
                   inLevelTransitionCooldown, transitionCount, expiryCount,
                   GrantedItems, CheckedLocations, APSynced, RandomisePurpleSigils,
                   RandomiseStars, ReusableTetrominos, progressReachable,
                   resolveVars, luaVars,
                   mapVars>>

\* ModCore::Tick on a frame on which ShouldTick returns true, before shutdown
ModCore_TickGated ==
    /\ ~m_shuttingDown
    /\ ~mineOnPlayer
    /\ \E haveLocation \in BOOLEAN, teleportOk \in BOOLEAN :
          GatedTick(HandleLevelTransitionCooldown(CooldownInput),
                    haveLocation, teleportOk)
    /\ UNCHANGED <<DeathLinkEnabled, steadyNow, m_lastTick, m_frame, m_shuttingDown,
                   calledBefore, lastFireAt, lastSched, pollCount, shutdownTicks,
                   playerPresent, bIsDead, minePresent,
                   inboundCount, consumeCount, localDeathCount,
                   inLevelTransitionCooldown, transitionCount, expiryCount,
                   GrantedItems, CheckedLocations, APSynced, RandomisePurpleSigils,
                   RandomiseStars, ReusableTetrominos, progressReachable,
                   resolveVars, luaVars,
                   mapVars>>

(***************************************************************************)
(* GoalDetectionHandler: Init, Tick, CheckGoals, FireGoal, ResetGoalState  *)
(***************************************************************************)
POLL_DELAY_MS == 20000

TRANSCENDENCE_SIGIL_REQUIREMENT == 90

\* value of lastGoal when no goal detection step has been taken
NoGoal == [kind |-> "none"]

\* what one poll finds in the host: the URL of SequentialMediaPlayer_Secondary
\* ("" when there is no such player or no URL), whether the Transcendence
\* sequence is in memory, the number of granted items, and whether
\* TalosSaveSubsystem and its IsGameCompleted function are found
PollInputs ==
    [url : {"", "Intro", "Ending_Ascension"},
     seq : BOOLEAN,
     sigils : {TRANSCENDENCE_SIGIL_REQUIREMENT - 1, TRANSCENDENCE_SIGIL_REQUIREMENT},
     subsystem : BOOLEAN]

HasEnoughSigils(count) == count >= TRANSCENDENCE_SIGIL_REQUIREMENT

\* the handler's fields as CheckGoals and Tick use them
GoalState ==
    [completed |-> m_goalCompleted, active |-> m_pollingActive,
     previous |-> m_previousGameCompleted, url |-> m_lastPolledUrl,
     fired |-> "none", read |-> "none", polled |-> FALSE]

\* FireGoal: sets m_goalCompleted unless it is set
FireGoalIn(st, source) ==
    IF st.completed THEN st ELSE [st EXCEPT !.completed = TRUE, !.fired = source]

\* variant: the fallback fires on every true reading
FallbackPoll_Level(st, in, reading) ==
    IF ~in.subsystem THEN st
    ELSE [(IF reading THEN FireGoalIn(st, "IsGameCompleted") ELSE st)
             EXCEPT !.previous = reading,
                    !.read = IF reading THEN "true" ELSE "false"]

\* the TalosSaveSubsystem:IsGameCompleted fallback of CheckGoals
FallbackPoll(st, in, reading) ==
    IF ~in.subsystem THEN st
    ELSE [(IF reading /\ ~st.previous THEN FireGoalIn(st, "IsGameCompleted") ELSE st)
             EXCEPT !.previous = reading,
                    !.read = IF reading THEN "true" ELSE "false"]

\* CheckGoals: the media player URL, the Transcendence sequence, the fallback
CheckGoals(st, in, reading) ==
    IF st.completed THEN st
    ELSE LET polled == [st EXCEPT !.polled = TRUE]
             urlNew == in.url # "" /\ in.url # st.url
             seen   == IF urlNew THEN [polled EXCEPT !.url = in.url] ELSE polled
         IN  IF urlNew /\ in.url = "Ending_Ascension"
             THEN FireGoalIn(seen, "BinkMediaPlayer")
             ELSE IF in.seq /\ HasEnoughSigils(in.sigils)
             THEN FireGoalIn(seen, "Ending_Transcendence")
             ELSE FallbackPoll(seen, in, reading)

\* variant: polling starts without waiting for m_pollReadyTime
GoalDetectionHandler_Tick_NoDelay(st, now, readyTime, in, reading) ==
    IF st.completed THEN st
    ELSE CheckGoals([st EXCEPT !.active = TRUE], in, reading)

\* GoalDetectionHandler::Tick
GoalDetectionHandler_Tick(st, now, readyTime, in, reading) ==
    IF st.completed THEN st
    ELSE IF ~st.active /\ now < readyTime THEN st
    ELSE CheckGoals([st EXCEPT !.active = TRUE], in, reading)

\* the phase of goal polling
GoalPhase(initialised, active, completed) ==
    IF completed THEN "Completed"
    ELSE IF active THEN "Polling"
    ELSE IF initialised THEN "Warmup"
    ELSE "Idle"

\* GoalDetectionHandler::Init, called once from ModCore::RegisterHooks
GoalDetectionHandler_Init ==
    /\ goalInitAt = 0
    /\ goalInitAt' = steadyNow
    /\ m_pollReadyTime' = steadyNow + POLL_DELAY_MS * TicksPerMs
    /\ lastGoal' = [kind |-> "init",
                    phaseBefore |-> GoalPhase(FALSE, m_pollingActive, m_goalCompleted)]
    /\ UNCHANGED <<m_pollingActive, m_previousGameCompleted, m_lastPolledUrl,
                   isGameCompleted, lastRead, fireCount, resetCount,
                   cadenceVars, scanVars, deathObsVars, resolveVars, sessionVars,
                   storeVars, linkVars,
                   tickVars, luaVars, coreVars, mapVars>>

\* the effects of one GoalDetectionHandler::Tick call, r being what it computed
ApplyGoalTick(r) ==
    /\ m_pollingActive' = r.active
    /\ m_previousGameCompleted' = r.previous
    /\ m_lastPolledUrl' = r.url
    /\ lastRead' = IF r.read = "none" THEN lastRead ELSE r.read
    /\ fireCount' = IF r.fired = "none" THEN fireCount ELSE fireCount + 1
    /\ lastGoal' = [kind |-> "tick", polled |-> r.polled, fired |-> r.fired,
                    read |-> r.read, prevRead |-> lastRead, at |-> steadyNow,
                    sentBefore |-> m_goalSent,
                    phaseBefore |-> GoalPhase(TRUE, m_pollingActive, m_goalCompleted)]
    /\ UNCHANGED <<m_pollReadyTime, isGameCompleted, goalInitAt, resetCount>>

\* ModCore::Tick on a frame on which ShouldTick returns true, with
\* TickGoalDetection and CheckGoalCompletion in full; the handler was
\* initialised before the first tick
ModCore_TickGoal ==
    /\ ~m_shuttingDown
    /\ ~mineOnPlayer
    /\ goalInitAt # 0
    /\ LET h == HandleLevelTransitionCooldown(CooldownInput)
       IN  /\ \E haveLocation \in BOOLEAN, teleportOk \in BOOLEAN :
                 GatedTickToGoal(h, haveLocation, teleportOk)
           /\ IF h.skip
              THEN UNCHANGED <<m_goalCompleted, m_goalSent, goalSendCount, goalVars>>
              ELSE \E in \in PollInputs :
                      LET r == GoalDetectionHandler_Tick(GoalState, steadyNow,
                                                         m_pollReadyTime, in,
                                                         isGameCompleted)
                      IN  /\ ApplyGoalTick(r)
                          /\ CheckGoalCompletion(r.completed)
    /\ UNCHANGED <<scanVars, deathObsVars>>
    /\ UNCHANGED <<DeathLinkEnabled, steadyNow, m_lastTick, m_frame, m_shuttingDown,
                   calledBefore, lastFireAt, lastSched, pollCount, shutdownTicks,
                   playerPresent, bIsDead, minePresent,
                   inboundCount, consumeCount, localDeathCount,
                   inLevelTransitionCooldown, transitionCount, expiryCount,
                   GrantedItems, CheckedLocations, APSynced, RandomisePurpleSigils,
                   RandomiseStars, ReusableTetrominos, progressReachable,
                   resolveVars, luaVars,
                   mapVars>>

\* GoalDetectionHandler::ResetGoalState
ResetGoalState ==
    /\ goalInitAt # 0
    /\ resetCount < MaxGoalResets
    /\ resetCount' = resetCount + 1
    /\ m_goalCompleted' = FALSE
    /\ m_previousGameCompleted' = FALSE
    /\ m_lastPolledUrl' = ""
    /\ m_pollingActive' = FALSE
    /\ lastGoal' = [kind |-> "reset",
                    phaseBefore |-> GoalPhase(TRUE, m_pollingActive, m_goalCompleted)]
    /\ UNCHANGED <<m_pollReadyTime, isGameCompleted, goalInitAt, lastRead, fireCount,
                   steadyNow, m_lastTick, m_frame, m_shuttingDown, m_goalSent,
                   calledBefore, lastFireAt, lastSched, pollCount, goalSendCount,
                   shutdownTicks,
                   cadenceVars, scanVars, deathObsVars, resolveVars, sessionVars,
                   storeVars, linkVars,
                   tickVars, luaVars, mapVars>>

\* the host: the save in use is completed, or a save that is not is loaded
HostGameCompleted ==
    /\ isGameCompleted' = ~isGameCompleted
    /\ lastGoal' = NoGoal
    /\ UNCHANGED <<m_pollReadyTime, m_pollingActive, m_previousGameCompleted,
                   m_lastPolledUrl, goalInitAt, lastRead, fireCount, resetCount,
                   cadenceVars, scanVars, deathObsVars, resolveVars, sessionVars,
                   storeVars, linkVars,
                   tickVars, luaVars, coreVars, mapVars>>

\* half of the poll delay passes
HalfDelayElapses ==
    /\ steadyNow + (POLL_DELAY_MS * TicksPerMs) \div 2
          <= TicksPerMs + MaxHalfDelays * ((POLL_DELAY_MS * TicksPerMs) \div 2)
    /\ steadyNow' = steadyNow + (POLL_DELAY_MS * TicksPerMs) \div 2
    /\ lastGoal' = NoGoal
    /\ UNCHANGED <<m_lastTick, m_frame, m_shuttingDown, m_goalCompleted, m_goalSent,
                   calledBefore, lastFireAt, lastSched, pollCount, goalSendCount,
                   shutdownTicks,
                   m_pollReadyTime, m_pollingActive, m_previousGameCompleted,
                   m_lastPolledUrl, isGameCompleted, goalInitAt, lastRead, fireCount,
                   resetCount,
                   cadenceVars, scanVars, deathObsVars, resolveVars, sessionVars,
                   storeVars, linkVars,
                   tickVars, luaVars, mapVars>>

(***************************************************************************)
(* TalosPrincipleArchipelagoMod::on_update: the per-update driver that     *)
(* paces its steps by counting updates                                     *)
(***************************************************************************)
\* EnforceVisibility is called on every fifth update
VisibilityEvery == 5

\* FindProgressObject / EnforceCollectionState are called on every sixtieth
ReconcileEvery == 60

\* variant: visibility is paced like reconciliation
EnforceVisibilityDue_Slow(tickCount, synced) == synced /\ tickCount % ReconcileEvery = 0

\* the condition in front of the EnforceVisibility call
EnforceVisibilityDue(tickCount, synced) == synced /\ tickCount % VisibilityEvery = 0

\* the condition in front of the EnforceCollectionState block
EnforceCollectionDue(tickCount) == tickCount % ReconcileEvery = 0

\* the condition in front of m_goalDetectionHandler.Tick
GoalTickDue(tickCount) == tickCount % ReconcileEvery = 0

\* on_update with DeathLink disabled: no inbound request is processed, and
\* the exchange on PendingDeathLinkSend clears it without a send
on_update ==
    /\ ~m_shuttingDown
    /\ ~DeathLinkEnabled
    /\ m_tickCount < MaxUpdates
    /\ m_tickCount' = m_tickCount + 1
    /\ pollCount' = pollCount + 1
    /\ LET h == HandleLevelTransitionCooldown(CooldownInput)
           count == m_tickCount + 1
       IN  /\ m_levelTransitionCooldownWasActive' = h.st.wasActive
           /\ IF h.skip
              THEN /\ NoteCadence("on_update", FALSE, FALSE)
                   /\ UNCHANGED <<PendingDeathLinkSend, CurrentProgress,
                                  CollectedTetrominos, lastPass, m_goalCompleted,
                                  m_goalSent, goalSendCount>>
              ELSE /\ PendingDeathLinkSend' = FALSE
                   /\ NoteCadence("on_update", EnforceVisibilityDue(count, APSynced),
                                  EnforceCollectionDue(count))
                   /\ IF EnforceCollectionDue(count)
                      THEN /\ CurrentProgress' = FindProgressObject(progressReachable)
                           /\ ApplyPass(CurrentProgress' # "null"
                                           /\ EnforceRuns(CurrentProgress', APSynced),
                                        EnforcePhases(CollectedTetrominos, GrantedItems,
                                                      RandomisePurpleSigils,
                                                      RandomiseStars,
                                                      ReusableTetrominos))
                      ELSE UNCHANGED <<CurrentProgress, CollectedTetrominos, lastPass>>
                   /\ \E detected \in {FALSE, GoalTickDue(count)} :
                         CheckGoalCompletion(m_goalCompleted \/ detected)
    /\ UNCHANGED <<DeathLinkEnabled, IsDeathLinkDeath, PendingDeathLinkReceive,
                   PendingDeferredDeathLink, playerPresent, bIsDead, minePresent,
                   mineOnPlayer, lastEvent, lastOutcome, inboundCount, enactCount,
                   consumeCount, localDeathCount, sendCount,
                   inLevelTransitionCooldown, transitionCount, expiryCount,
                   rearmCount, deferredUnenacted,
                   steadyNow, m_lastTick, m_frame, m_shuttingDown, calledBefore,
                   lastFireAt, lastSched, shutdownTicks,
                   GrantedItems, CheckedLocations, APSynced, RandomisePurpleSigils,
                   RandomiseStars, ReusableTetrominos, progressReachable,
                   resolveVars, luaVars, mapVars, goalVars, scanVars, deathObsVars>>

\* the KismetSystemLibrary:QuitGame hook of ModCore::RegisterHooks
QuitGameHook ==
    /\ ~m_shuttingDown
    /\ m_shuttingDown' = TRUE
    /\ UNCHANGED <<steadyNow, m_lastTick, m_frame, m_goalCompleted, m_goalSent,
                   calledBefore, lastFireAt, lastSched, pollCount, goalSendCount,
                   shutdownTicks,
                   resolveVars, sessionVars, storeVars, linkVars, tickVars, luaVars,
                   mapVars,
                   handlerVars>>

\* GoalDetectionHandler::FireGoal called from one of the handler's hooks
FireGoal ==
    /\ ~m_goalCompleted
    /\ m_goalCompleted' = TRUE
    /\ UNCHANGED <<steadyNow, m_lastTick, m_frame, m_shuttingDown, m_goalSent,
                   calledBefore, lastFireAt, lastSched, pollCount, goalSendCount,
                   shutdownTicks,
                   resolveVars, sessionVars, storeVars, linkVars, tickVars, luaVars,
                   mapVars,
                   handlerVars>>

(***************************************************************************)
(* scripts/main.lua: polling loop, fast visibility loop, hooks             *)
(***************************************************************************)
\* value of lastVis when the last step was not a step of the Lua scripts
NoVis == [kind |-> "none"]

\* items with a BP_TetrominoItem_C actor in the model: a tetromino and a purple sigil
LuaItems == {Id("D","J",1), Id("H","L",1)}

\* Collection.IsLocationChecked / Collection.IsGranted
IsLocationChecked(id) == id \in CheckedLocations

IsGranted(id) == id \in GrantedItems

\* is the item's class enabled by the configuration
ClassEnabled(id) ==
    /\ ~(IsPurpleSigil(id) /\ ~RandomisePurpleSigils)
    /\ ~(IsStar(id) /\ ~RandomiseStars)

\* Collection.ShouldBeCollectable: Collectable-now
ShouldBeCollectable(id) == ~IsLocationChecked(id) /\ ClassEnabled(id)

\* the (checked, granted) pair of an item
PairOf(id) ==
    IF IsLocationChecked(id)
    THEN (IF IsGranted(id) THEN "checked+granted" ELSE "checked")
    ELSE (IF IsGranted(id) THEN "granted" ELSE "neither")

\* State.CurrentProgress and State.CurrentProgress:IsValid()
HandleUsable(handle) == handle = "valid"

\* Progress.FindProgressObject(State, forceRefresh): State.CurrentProgress
\* afterwards, found telling whether the search returned a valid object
LuaFindProgressObject(handle, forceRefresh, found) ==
    IF ~forceRefresh /\ HandleUsable(handle) THEN handle
    ELSE IF found THEN "valid" ELSE "nil"

\* the presentation the fast loop's branches pick for an item
FastLoopTarget(id) ==
    IF ShouldBeCollectable(id) THEN "visible"
    ELSE IF IsLocationChecked(id) /\ ~IsGranted(id) THEN "hidden"
    ELSE "none"

\* variant: the driver is called whenever a branch is taken
FastLoopCalls_NoCache(applied) ==
    {<<id, FastLoopTarget(id)>> : id \in {i \in LuaItems : FastLoopTarget(i) # "none"}}

\* the Visibility.SetTetrominoVisible / SetTetrominoHidden calls of one run
FastLoopCalls(applied) ==
    {<<id, FastLoopTarget(id)>> :
        id \in {i \in LuaItems : /\ FastLoopTarget(i) # "none"
                                 /\ applied[i] # FastLoopTarget(i)}}

\* variant: the run does not record what it applied
FastLoopApplied_NoRecord(applied) == applied

\* VisibilityApplied after one run
FastLoopApplied(applied) ==
    [id \in LuaItems |->
        IF FastLoopTarget(id) # "none" THEN FastLoopTarget(id) ELSE applied[id]]

\* variant: the entry of every item found is removed
FastLoopRemoves_AllItems(handle) ==
    IF HandleUsable(handle) THEN LuaItems ELSE {}

\* the ids one run calls State.CurrentProgress.CollectedTetrominos:Remove for
FastLoopRemoves(handle) ==
    IF HandleUsable(handle) THEN {id \in LuaItems : ShouldBeCollectable(id)} ELSE {}

\* Visibility.SetTetrominoVisible / SetTetrominoHidden applied to the actors
DriverApply(presentation, calls) ==
    [id \in LuaItems |->
        IF <<id, "visible">> \in calls THEN "visible"
        ELSE IF <<id, "hidden">> \in calls THEN "hidden"
        ELSE presentation[id]]

\* the driver calls of a run for items whose (checked, granted) pair is the one
\* the previous run saw
RepeatCalls(calls, seen) == {c \in calls : seen[c[1]] = PairOf(c[1])}

\* the fast visibility loop, LoopAsync(10, ...)
LuaFastLoop ==
    /\ IF State_LevelTransitionCooldown > 0
       THEN /\ lastVis' = [kind |-> "fast", skipped |-> TRUE]
            /\ UNCHANGED <<CollectedTetrominos, VisibilityApplied, pairAtRun,
                           actorPresentation>>
       ELSE /\ actorPresentation' =
                  DriverApply(actorPresentation, FastLoopCalls(VisibilityApplied))
            /\ CollectedTetrominos' =
                  TMapRemove(CollectedTetrominos, FastLoopRemoves(State_CurrentProgress))
            /\ VisibilityApplied' = FastLoopApplied(VisibilityApplied)
            /\ pairAtRun' = [id \in LuaItems |-> PairOf(id)]
            /\ lastVis' = [kind |-> "fast", skipped |-> FALSE,
                           repeatCalls |-> RepeatCalls(FastLoopCalls(VisibilityApplied),
                                                       pairAtRun),
                           repeatRun |-> \E id \in LuaItems :
                                            /\ pairAtRun[id] = PairOf(id)
                                            /\ VisibilityApplied[id] # "none",
                           removed |-> DOMAIN CollectedTetrominos
                                          \ DOMAIN CollectedTetrominos',
                           inserted |-> DOMAIN CollectedTetrominos'
                                          \ DOMAIN CollectedTetrominos,
                           storeAccess |-> FastLoopRemoves(State_CurrentProgress) # {},
                           handleFresh |-> FALSE]
    /\ UNCHANGED <<sessionVars, progressReachable, lastPass, State_CurrentProgress,
                   State_LevelTransitionCooldown,
                   delayedEnforcePending, resolveVars, linkVars, tickVars,
                   coreVars,
                   mapVars,
                   handlerVars>>

\* Collection.EnforceCollectionState(State): the reconciliation pass on the map
Collection_EnforceCollectionState(tmap) ==
    EnforcePhases(tmap, GrantedItems, RandomisePurpleSigils, RandomiseStars,
                  ReusableTetrominos).tmap

\* OnTetrominoCollected for the pickups the scanner reports; its write to
\* VisibilityApplied precedes the fast loop's local declaration, so it reads the
\* global of that name and leaves the fast loop's cache alone
OnTetrominoCollected(checked, picked) == checked \cup picked

\* ---- scanner.lua: ScanTetrominoItems ----
\* addresses of the BP_TetrominoItem_C actors of the level
ScanActors == {"A1"}

\* GetTetrominoId of the actor at an address
ActorTetrominoId(addr) == Id("D","J",1)

\* what reading bIsAnimating or bHidden gives: "nil" when the pcall failed
Tri == {"nil", "true", "false"}

\* an address FindAllOf does not return, or whose object is not valid
NoActor == [present |-> FALSE, anim |-> "nil", hidden |-> "nil"]

ActorStates == {NoActor} \cup [present : {TRUE}, anim : Tri, hidden : Tri]

NoEntry == [tracked |-> FALSE]

NoTracked == [a \in ScanActors |-> NoEntry]

\* value of lastScan when the last step was not a scan
NoScan == [kind |-> "none"]

\* variant: the hidden transition is reported whether or not reported is set
ScanItem_NoLatch(info, actor, collectable) ==
    IF ~actor.present THEN [info |-> NoEntry, reports |-> 0]
    ELSE IF ~info.tracked
    THEN [info |-> [tracked |-> TRUE, wasAnimating |-> actor.anim,
                    wasHidden |-> actor.hidden, reported |-> actor.anim = "true"],
          reports |-> IF actor.anim = "true" THEN 1 ELSE 0]
    ELSE LET byAnim == actor.anim = "true" /\ info.wasAnimating = "false"
                          /\ ~info.reported
             byHidden == actor.hidden = "true" /\ info.wasHidden = "false"
             reported == info.reported \/ byAnim \/ byHidden
             rearm == reported /\ collectable /\ ~byAnim /\ ~byHidden
                         /\ actor.anim = "false" /\ actor.hidden = "false"
         IN  [info |-> [tracked |-> TRUE, wasAnimating |-> actor.anim,
                        wasHidden |-> actor.hidden, reported |-> reported /\ ~rearm],
              reports |-> (IF byAnim THEN 1 ELSE 0) + (IF byHidden THEN 1 ELSE 0)]

\* the body of the scanner's loop for one actor, and the clean-up for an
\* address that was not found: the entry afterwards and the onCollected calls
\* made.  collectable is ShouldBeCollectable before the scan; a report checks
\* the item's location, after which it is not collectable.
ScanItem(info, actor, collectable) ==
    IF ~actor.present THEN [info |-> NoEntry, reports |-> 0]
    ELSE IF ~info.tracked
    THEN [info |-> [tracked |-> TRUE, wasAnimating |-> actor.anim,
                    wasHidden |-> actor.hidden, reported |-> actor.anim = "true"],
          reports |-> IF actor.anim = "true" THEN 1 ELSE 0]
    ELSE LET byAnim == actor.anim = "true" /\ info.wasAnimating = "false"
                          /\ ~info.reported
             byHidden == actor.hidden = "true" /\ info.wasHidden = "false"
                            /\ ~(info.reported \/ byAnim)
             reported == info.reported \/ byAnim \/ byHidden
             rearm == reported /\ collectable /\ ~byAnim /\ ~byHidden
                         /\ actor.anim = "false" /\ actor.hidden = "false"
         IN  [info |-> [tracked |-> TRUE, wasAnimating |-> actor.anim,
                        wasHidden |-> actor.hidden, reported |-> reported /\ ~rearm],
              reports |-> (IF byAnim THEN 1 ELSE 0) + (IF byHidden THEN 1 ELSE 0)]

\* ScanTetrominoItems over all actors
ScanTetrominoItems(tracked, actors) ==
    [a \in ScanActors |->
        ScanItem(tracked[a], actors[a], ShouldBeCollectable(ActorTetrominoId(a)))]

\* the items a scan reported
ScanPicked(r) == {ActorTetrominoId(a) : a \in {b \in ScanActors : r[b].reports > 0}}

\* was the actor seen ready to be picked up: visible, not animating, collectable
SeenReady(actor, id) ==
    actor.present /\ actor.anim = "false" /\ actor.hidden = "false"
        /\ ShouldBeCollectable(id)

\* the entry of an address is removed
Dropped(since) == IF since = "no" THEN "no" ELSE "dropped"

\* the effects of a scan on State.TrackedItems, and its record; runs tells
\* whether the scanner was called
ApplyScan(runs, r) ==
    /\ TrackedItems' = IF runs THEN [a \in ScanActors |-> r[a].info] ELSE TrackedItems
    /\ reportedSince' =
          [a \in ScanActors |->
              IF ~runs THEN reportedSince[a]
              ELSE IF r[a].reports > 0 THEN "tracked"
              ELSE IF SeenReady(sceneActors[a], ActorTetrominoId(a)) THEN "no"
              ELSE IF ~r[a].info.tracked THEN Dropped(reportedSince[a])
              ELSE reportedSince[a]]
    /\ lastScan' = IF runs
                   THEN [kind |-> "scan",
                         reports |-> [a \in ScanActors |-> r[a].reports],
                         sinceBefore |-> reportedSince,
                         before |-> TrackedItems]
                   ELSE NoScan
    /\ UNCHANGED sceneActors

\* the polling loop with the scanner in full
LuaPollingLoopScan ==
    /\ IF State_LevelTransitionCooldown > 0
       THEN /\ State_LevelTransitionCooldown = 1 => ~delayedEnforcePending
            /\ State_LevelTransitionCooldown' = State_LevelTransitionCooldown - 1
            /\ lastVis' = [kind |-> "poll", skipped |-> TRUE]
            /\ ApplyScan(FALSE, ScanTetrominoItems(TrackedItems, sceneActors))
            /\ UNCHANGED <<CollectedTetrominos, State_CurrentProgress, CheckedLocations>>
       ELSE /\ \E found \in BOOLEAN :
                  State_CurrentProgress' =
                      LuaFindProgressObject(State_CurrentProgress, FALSE, found)
            /\ CollectedTetrominos' =
                  IF HandleUsable(State_CurrentProgress')
                  THEN Collection_EnforceCollectionState(CollectedTetrominos)
                  ELSE CollectedTetrominos
            /\ LET r == ScanTetrominoItems(TrackedItems, sceneActors)
                   runs == HandleUsable(State_CurrentProgress')
               IN  /\ ApplyScan(runs, r)
                   /\ CheckedLocations' =
                         IF runs
                         THEN OnTetrominoCollected(CheckedLocations, ScanPicked(r))
                         ELSE CheckedLocations
            /\ lastVis' = [kind |-> "poll", skipped |-> FALSE,
                           storeAccess |-> HandleUsable(State_CurrentProgress'),
                           handleFresh |-> ~HandleUsable(State_CurrentProgress)]
            /\ UNCHANGED State_LevelTransitionCooldown
    /\ UNCHANGED <<GrantedItems, APSynced, RandomisePurpleSigils, RandomiseStars,
                   ReusableTetrominos, CurrentProgress, progressReachable, lastPass,
                   VisibilityApplied, actorPresentation, delayedEnforcePending,
                   pairAtRun, resolveVars, linkVars, tickVars,
                   coreVars,
                   mapVars,
                   deathObsVars, cadenceVars, goalVars>>

\* the LoopAsync(2000, ...) callback of ClientRestart with the scanner in full
LuaDelayedEnforceScan ==
    /\ delayedEnforcePending
    /\ delayedEnforcePending' = FALSE
    /\ CollectedTetrominos' =
          IF HandleUsable(State_CurrentProgress)
          THEN Collection_EnforceCollectionState(CollectedTetrominos)
          ELSE CollectedTetrominos
    /\ LET r == ScanTetrominoItems(TrackedItems, sceneActors)
       IN  /\ ApplyScan(TRUE, r)
           /\ CheckedLocations' = OnTetrominoCollected(CheckedLocations, ScanPicked(r))
    /\ lastVis' = [kind |-> "delayed", skipped |-> FALSE,
                   storeAccess |-> HandleUsable(State_CurrentProgress),
                   handleFresh |-> FALSE]
    /\ UNCHANGED <<GrantedItems, APSynced, RandomisePurpleSigils, RandomiseStars,
                   ReusableTetrominos, CurrentProgress, progressReachable, lastPass,
                   State_CurrentProgress, State_LevelTransitionCooldown,
                   VisibilityApplied, actorPresentation, pairAtRun,
                   resolveVars, linkVars, tickVars,
                   coreVars,
                   mapVars,
                   deathObsVars, cadenceVars, goalVars>>

\* the host changes an item actor: it starts or ends its pickup animation, is
\* hidden or shown, is destroyed or spawned
HostActorChange ==
    /\ \E a \in ScanActors, st \in ActorStates :
          /\ st # sceneActors[a]
          /\ sceneActors' = [sceneActors EXCEPT ![a] = st]
    /\ lastScan' = NoScan
    /\ lastVis' = NoVis
    /\ UNCHANGED <<sessionVars, storeVars, State_CurrentProgress,
                   State_LevelTransitionCooldown, VisibilityApplied,
                   actorPresentation, delayedEnforcePending, pairAtRun,
                   TrackedItems, reportedSince,
                   resolveVars, linkVars, tickVars, coreVars, mapVars,
                   deathObsVars, cadenceVars, goalVars>>

\* the polling loop, LoopAsync(100, ...): cooldown, handle, pass, scan.  The
\* cooldown of 50 runs (5000 ms) outlasts the 2000 ms of the delayed callback,
\* so the run that ends the cooldown comes after that callback.
LuaPollingLoop ==
    /\ IF State_LevelTransitionCooldown > 0
       THEN /\ State_LevelTransitionCooldown = 1 => ~delayedEnforcePending
            /\ State_LevelTransitionCooldown' = State_LevelTransitionCooldown - 1
            /\ lastVis' = [kind |-> "poll", skipped |-> TRUE]
            /\ UNCHANGED <<CollectedTetrominos, State_CurrentProgress, CheckedLocations>>
       ELSE /\ \E found \in BOOLEAN :
                  State_CurrentProgress' =
                      LuaFindProgressObject(State_CurrentProgress, FALSE, found)
            /\ CollectedTetrominos' =
                  IF HandleUsable(State_CurrentProgress')
                  THEN Collection_EnforceCollectionState(CollectedTetrominos)
                  ELSE CollectedTetrominos
            /\ \E picked \in SUBSET LuaItems :
                  /\ ~HandleUsable(State_CurrentProgress') => picked = {}
                  /\ CheckedLocations' = OnTetrominoCollected(CheckedLocations, picked)
            /\ lastVis' = [kind |-> "poll", skipped |-> FALSE,
                           storeAccess |-> HandleUsable(State_CurrentProgress'),
                           handleFresh |-> ~HandleUsable(State_CurrentProgress)]
            /\ UNCHANGED State_LevelTransitionCooldown
    /\ UNCHANGED <<GrantedItems, APSynced, RandomisePurpleSigils, RandomiseStars,
                   ReusableTetrominos, CurrentProgress, progressReachable, lastPass,
                   VisibilityApplied, actorPresentation, delayedEnforcePending,
                   pairAtRun, resolveVars, linkVars, tickVars,
                   coreVars,
                   mapVars,
                   handlerVars>>

\* a run of the polling loop in which the scanner reports no pickup
PollWithoutPickup == LuaPollingLoop /\ UNCHANGED CheckedLocations

\* the PlayerController:ClientRestart hook, on a player spawn after which the
\* item actors may be new ones; its assignment to VisibilityApplied precedes the
\* fast loop's local declaration, so it writes the global of that name and
\* leaves the fast loop's cache as it is
LuaClientRestart ==
    /\ \E found \in BOOLEAN :
          State_CurrentProgress' = LuaFindProgressObject("nil", TRUE, found)
    /\ State_LevelTransitionCooldown' = LuaCooldownTicks
    /\ \E actorsNew \in BOOLEAN :
          actorPresentation' = IF actorsNew THEN [id \in LuaItems |-> "default"]
                                ELSE actorPresentation
    /\ delayedEnforcePending' = TRUE
    /\ lastVis' = NoVis
    /\ TrackedItems' = NoTracked
    /\ reportedSince' = [a \in ScanActors |-> Dropped(reportedSince[a])]
    /\ lastScan' = NoScan
    /\ UNCHANGED <<sessionVars, storeVars, VisibilityApplied, pairAtRun,
                   resolveVars, linkVars, tickVars,
                   coreVars,
                   mapVars,
                   deathObsVars, cadenceVars, goalVars, sceneActors>>

\* the LoopAsync(2000, ...) callback ClientRestart schedules: pass, scan
LuaDelayedEnforce ==
    /\ delayedEnforcePending
    /\ delayedEnforcePending' = FALSE
    /\ CollectedTetrominos' =
          IF HandleUsable(State_CurrentProgress)
          THEN Collection_EnforceCollectionState(CollectedTetrominos)
          ELSE CollectedTetrominos
    /\ \E picked \in SUBSET LuaItems :
          /\ ~HandleUsable(State_CurrentProgress) => picked = {}
          /\ CheckedLocations' = OnTetrominoCollected(CheckedLocations, picked)
    /\ lastVis' = [kind |-> "delayed", skipped |-> FALSE,
                   storeAccess |-> HandleUsable(State_CurrentProgress),
                   handleFresh |-> FALSE]
    /\ UNCHANGED <<GrantedItems, APSynced, RandomisePurpleSigils, RandomiseStars,
                   ReusableTetrominos, CurrentProgress, progressReachable, lastPass,
                   State_CurrentProgress, State_LevelTransitionCooldown,
                   VisibilityApplied, actorPresentation, pairAtRun,
                   resolveVars, linkVars, tickVars,
                   coreVars,
                   mapVars,
                   handlerVars>>

\* the host destroys or replaces the progress object the scripts hold
LuaHostObjectsChange ==
    /\ State_CurrentProgress = "valid"
    /\ State_CurrentProgress' = "stale"
    /\ lastVis' = NoVis
    /\ UNCHANGED <<sessionVars, storeVars, State_LevelTransitionCooldown,
                   VisibilityApplied, actorPresentation, delayedEnforcePending,
                   pairAtRun, resolveVars, linkVars, tickVars,
                   coreVars,
                   mapVars,
                   handlerVars>>

(***************************************************************************)
(* Initial states and specifications                                       *)
(***************************************************************************)
AllStores == UNION {[K -> BOOLEAN] : K \in SUBSET KeyUniverse}

\* session state right after construction, no subsystem active
SessionIdle ==
    /\ GrantedItems = {}
    /\ CheckedLocations = {}
    /\ APSynced = FALSE
    /\ RandomisePurpleSigils = FALSE
    /\ RandomiseStars = FALSE
    /\ ReusableTetrominos = FALSE
    /\ CurrentProgress = "null"

StoreIdle ==
    /\ CollectedTetrominos = <<>>
    /\ progressReachable = FALSE
    /\ lastPass = NoPass

LinkIdle ==
    /\ DeathLinkEnabled = FALSE
    /\ IsDeathLinkDeath = FALSE
    /\ PendingDeathLinkSend = FALSE
    /\ PendingDeathLinkReceive = FALSE
    /\ PendingDeferredDeathLink = FALSE
    /\ playerPresent = FALSE
    /\ bIsDead = FALSE
    /\ minePresent = FALSE
    /\ mineOnPlayer = FALSE
    /\ lastEvent = NoEvent
    /\ lastOutcome = "idle"
    /\ inboundCount = 0
    /\ enactCount = 0
    /\ consumeCount = 0
    /\ localDeathCount = 0
    /\ sendCount = 0

TickIdle ==
    /\ inLevelTransitionCooldown = FALSE
    /\ m_levelTransitionCooldownWasActive = FALSE
    /\ transitionCount = 0
    /\ expiryCount = 0
    /\ rearmCount = 0
    /\ deferredUnenacted = FALSE

LuaIdle ==
    /\ State_CurrentProgress = "nil"
    /\ State_LevelTransitionCooldown = 0
    /\ VisibilityApplied = [id \in LuaItems |-> "none"]
    /\ actorPresentation = [id \in LuaItems |-> "default"]
    /\ delayedEnforcePending = FALSE
    /\ pairAtRun = [id \in LuaItems |-> "none"]
    /\ lastVis = NoVis

\* the process has just started; the steady clock reads some time after its epoch
CoreRest ==
    /\ m_lastTick = 0
    /\ m_frame = 0
    /\ m_shuttingDown = FALSE
    /\ m_goalCompleted = FALSE
    /\ m_goalSent = FALSE
    /\ calledBefore = FALSE
    /\ lastFireAt = 0
    /\ lastSched = NoSched
    /\ pollCount = 0
    /\ goalSendCount = 0
    /\ shutdownTicks = 0

CoreIdle == steadyNow = TicksPerMs /\ CoreRest

MapIdle == lastConv = NoConv

CadenceIdle ==
    /\ m_tickCount = 0
    /\ lastCadence = NoCadence
    /\ visibilityAloneSince = FALSE

GoalIdle ==
    /\ m_pollReadyTime = 0
    /\ m_pollingActive = FALSE
    /\ m_previousGameCompleted = FALSE
    /\ m_lastPolledUrl = ""
    /\ isGameCompleted = FALSE
    /\ goalInitAt = 0
    /\ lastRead = "none"
    /\ fireCount = 0
    /\ resetCount = 0
    /\ lastGoal = NoGoal

ScanIdle ==
    /\ sceneActors = [a \in ScanActors |-> NoActor]
    /\ TrackedItems = NoTracked
    /\ reportedSince = [a \in ScanActors |-> "no"]
    /\ lastScan = NoScan

DeathObsIdle ==
    /\ genuineDeathCount = 0
    /\ sendCountAtDefeat = -1

HandlerIdle == CadenceIdle /\ GoalIdle /\ ScanIdle /\ DeathObsIdle

vars == <<resolveVars, sessionVars, storeVars, linkVars, tickVars, luaVars, coreVars,
          mapVars, handlerVars>>

\* ---- identifier resolution ----
InitResolveSpec ==
    InitResolve /\ SessionIdle /\ StoreIdle /\ LinkIdle /\ TickIdle /\ LuaIdle
    /\ CoreIdle
    /\ MapIdle
    /\ HandlerIdle

NextResolve ==
    \/ \E apItemId \in ApItemIdInputs : ResolveNew(apItemId)
    \/ ResolveReplay
    \/ Reconnect

SpecResolve == InitResolveSpec /\ [][NextResolve]_vars

\* ---- the Green J scenario ----
InitScenarioSpec == InitResolveSpec

NextScenario ==
    \/ \E apItemId \in ScenarioItemIds : ResolveScenario(apItemId)
    \/ ResolveReplay
    \/ Reconnect

SpecScenario == InitScenarioSpec /\ [][NextScenario]_vars

\* ---- collection state reconciliation ----
InitEnforceSpec ==
    /\ InitResolve
    /\ LuaIdle
    /\ CoreIdle
    /\ MapIdle
    /\ HandlerIdle
    /\ LinkIdle
    /\ TickIdle
    /\ GrantedItems = {}
    /\ CheckedLocations = {}
    /\ APSynced \in BOOLEAN
    /\ RandomisePurpleSigils \in BOOLEAN
    /\ RandomiseStars \in BOOLEAN
    /\ ReusableTetrominos \in BOOLEAN
    /\ CurrentProgress = "null"
    /\ CollectedTetrominos \in AllStores
    /\ progressReachable \in BOOLEAN
    /\ lastPass = NoPass

NextEnforce ==
    \/ \E id \in GrantUniverse : GrantItem(id)
    \/ \E id \in GrantUniverse : RevokeItem(id)
    \/ APSyncComplete
    \/ \E k \in KeyUniverse : HostCollect(k)
    \/ \E k \in KeyUniverse : HostUse(k)
    \/ HostWorldChange
    \/ ModCore_EnforceCollectionState

SpecEnforce == InitEnforceSpec /\ [][NextEnforce]_vars

\* ---- reconciliation with failing keys ----
InitFaultySpec ==
    /\ InitResolve
    /\ LuaIdle
    /\ CoreIdle
    /\ MapIdle
    /\ HandlerIdle
    /\ LinkIdle
    /\ TickIdle
    /\ GrantedItems = {}
    /\ CheckedLocations = {}
    /\ APSynced = TRUE
    /\ RandomisePurpleSigils = TRUE
    /\ RandomiseStars = TRUE
    /\ ReusableTetrominos \in BOOLEAN
    /\ CurrentProgress = "null"
    /\ CollectedTetrominos = <<>>
    /\ progressReachable = TRUE
    /\ lastPass = NoPass

NextFaulty ==
    \/ \E id \in FaultKeys : GrantItem(id)
    \/ \E k \in FaultKeys : HostCollect(k)
    \/ \E k \in FaultKeys : HostUse(k)
    \/ EnforceWithFailures

SpecFaulty == InitFaultySpec /\ [][NextFaulty]_vars

\* ---- DeathLink ----
InitLinkSpec ==
    /\ InitResolve
    /\ LuaIdle
    /\ CoreIdle
    /\ MapIdle
    /\ HandlerIdle
    /\ SessionIdle
    /\ StoreIdle
    /\ TickIdle
    /\ DeathLinkEnabled \in BOOLEAN
    /\ IsDeathLinkDeath = FALSE
    /\ PendingDeathLinkSend = FALSE
    /\ PendingDeathLinkReceive = FALSE
    /\ PendingDeferredDeathLink = FALSE
    /\ playerPresent \in BOOLEAN
    /\ bIsDead = FALSE
    /\ minePresent \in BOOLEAN
    /\ mineOnPlayer = FALSE
    /\ lastEvent = NoEvent
    /\ lastOutcome = "idle"
    /\ inboundCount = 0
    /\ enactCount = 0
    /\ consumeCount = 0
    /\ localDeathCount = 0
    /\ sendCount = 0

NextLink ==
    \/ ReceiveDeathLink
    \/ ModCore_ProcessDeathLinks
    \/ \E cause \in {"link", "local"} : SetDeath(cause)
    \/ Respawn
    \/ HostLevelChange

SpecLink == InitLinkSpec /\ [][NextLink]_vars

\* ---- DeathLink with level transitions ----
InitTickSpec == InitLinkSpec

NextTick ==
    \/ ReceiveDeathLink
    \/ ModCore_Tick
    \/ \E cause \in {"link", "local"} : SetDeath(cause)
    \/ Respawn
    \/ HostLevelChange
    \/ LevelTransition
    \/ CooldownExpire

SpecTick == InitTickSpec /\ [][NextTick]_vars

\* ---- outbound link events and the deaths behind them ----
InitOutboundSpec == InitLinkSpec

NextOutbound ==
    \/ ReceiveDeathLink
    \/ ModCore_ProcessDeathLinks
    \/ \E cause \in {"link", "local"} : SetDeathCounted(cause)
    \/ Respawn

SpecOutbound == InitOutboundSpec /\ [][NextOutbound]_vars

\* ---- received items: resolution and grant ----
InitGrantSpec == InitResolveSpec

NextGrant ==
    \/ \E apItemId \in ApItemIdInputs : ItemReceived(apItemId)
    \/ \E id \in GrantUniverse : GrantItem(id)
    \/ \E id \in GrantUniverse : RevokeItem(id)

SpecGrant == InitGrantSpec /\ [][NextGrant]_vars

\* ---- Lua scripts: visibility and pickups ----
InitVisibilitySpec ==
    /\ InitResolve
    /\ LinkIdle
    /\ TickIdle
    /\ LuaIdle
    /\ CoreIdle
    /\ MapIdle
    /\ HandlerIdle
    /\ GrantedItems = {}
    /\ CheckedLocations = {}
    /\ APSynced = FALSE
    /\ RandomisePurpleSigils = FALSE
    /\ RandomiseStars = FALSE
    /\ ReusableTetrominos = FALSE
    /\ CurrentProgress = "null"
    /\ CollectedTetrominos = <<>>
    /\ progressReachable = TRUE
    /\ lastPass = NoPass

NextVisibility ==
    \/ LuaFastLoop
    \/ LuaPollingLoop
    \/ LuaClientRestart
    \/ LuaDelayedEnforce
    \/ LuaHostObjectsChange
    \/ \E id \in LuaItems : GrantItem(id)
    \/ \E id \in LuaItems : RevokeItem(id)
    \/ \E k \in LuaItems : HostCollect(k)

SpecVisibility == InitVisibilitySpec /\ [][NextVisibility]_vars

\* ---- the two loops of the scripts with Granted and Checked fixed ----
LuaStores == UNION {[K -> BOOLEAN] : K \in SUBSET LuaItems}

InitSteadySpec ==
    /\ InitResolve
    /\ LinkIdle
    /\ TickIdle
    /\ LuaIdle
    /\ CoreIdle
    /\ MapIdle
    /\ HandlerIdle
    /\ GrantedItems \in SUBSET LuaItems
    /\ CheckedLocations \in SUBSET LuaItems
    /\ APSynced = TRUE
    /\ RandomisePurpleSigils \in BOOLEAN
    /\ RandomiseStars = FALSE
    /\ ReusableTetrominos = FALSE
    /\ CurrentProgress = "null"
    /\ CollectedTetrominos \in LuaStores
    /\ progressReachable = TRUE
    /\ lastPass = NoPass

NextSteady ==
    \/ LuaFastLoop
    \/ PollWithoutPickup

\* LoopAsync keeps calling both loops
SpecSteady ==
    /\ InitSteadySpec
    /\ [][NextSteady]_vars
    /\ WF_vars(LuaFastLoop)
    /\ WF_vars(PollWithoutPickup)

\* ---- TickScheduler ----
InitSchedSpec ==
    /\ InitResolve /\ SessionIdle /\ StoreIdle /\ LinkIdle /\ TickIdle /\ LuaIdle
    /\ steadyNow \in 1..TicksPerMs
    /\ CoreRest
    /\ MapIdle
    /\ HandlerIdle

NextSched ==
    \/ Sched_ShouldTick
    \/ Sched_Advance
    \/ ClockElapse

SpecSched == InitSchedSpec /\ [][NextSched]_vars

\* ---- ModCore::Tick, whole ----
InitCoreSpec ==
    /\ InitResolve /\ TickIdle /\ LuaIdle /\ CoreIdle
    /\ MapIdle
    /\ HandlerIdle
    /\ GrantedItems = {}
    /\ CheckedLocations = {}
    /\ APSynced = TRUE
    /\ RandomisePurpleSigils = FALSE
    /\ RandomiseStars = FALSE
    /\ ReusableTetrominos = FALSE
    /\ CurrentProgress = "null"
    /\ CollectedTetrominos = <<>>
    /\ progressReachable = TRUE
    /\ lastPass = NoPass
    /\ DeathLinkEnabled = TRUE
    /\ IsDeathLinkDeath = FALSE
    /\ PendingDeathLinkSend = FALSE
    /\ PendingDeathLinkReceive = FALSE
    /\ PendingDeferredDeathLink = FALSE
    /\ playerPresent = TRUE
    /\ bIsDead = FALSE
    /\ minePresent = TRUE
    /\ mineOnPlayer = FALSE
    /\ lastEvent = NoEvent
    /\ lastOutcome = "idle"
    /\ inboundCount = 0
    /\ enactCount = 0
    /\ consumeCount = 0
    /\ localDeathCount = 0
    /\ sendCount = 0

\* items the network grants in the whole-tick specification
CoreItems == {Id("D","J",1)}

\* the host and the network produce a bounded number of events
EventsLeft == inboundCount + localDeathCount + transitionCount < MaxCoreEvents

\* the network callbacks run inside APClientWrapper::Poll, which a tick no
\* longer calls once the shutdown flag is set
NextCore ==
    \/ ModCore_FullTick
    \/ IntervalElapses
    \/ QuitGameHook
    \/ FireGoal
    \/ ~m_shuttingDown /\ EventsLeft /\ ReceiveDeathLink
    \/ ~m_shuttingDown /\ \E id \in CoreItems : GrantItem(id)
    \/ EventsLeft /\ SetDeath("local")
    \/ SetDeath("link")
    \/ Respawn
    \/ EventsLeft /\ LevelTransition
    \/ CooldownExpire

SpecCore == InitCoreSpec /\ [][NextCore]_vars

\* ---- the gated tick during and after a level-transition cooldown ----
InitCooldownSpec == InitCoreSpec

CooldownEventsLeft ==
    inboundCount + localDeathCount + transitionCount < MaxCooldownEvents

\* the grant the specification follows arrives while a level loads
NextCooldown ==
    \/ ModCore_TickGated
    \/ FireGoal
    \/ CooldownEventsLeft /\ ReceiveDeathLink
    \/ inLevelTransitionCooldown /\ \E id \in CoreItems : GrantItem(id)
    \/ CooldownEventsLeft /\ SetDeath("local")
    \/ SetDeath("link")
    \/ Respawn
    \/ CooldownEventsLeft /\ LevelTransition
    \/ CooldownExpire

SpecCooldown == InitCooldownSpec /\ [][NextCooldown]_vars

\* ---- the pacing of visibility and reconciliation by the two tick drivers ----
\* a synced session with DeathLink disabled and a reachable progress object
InitCadenceSpec ==
    /\ InitResolve /\ LinkIdle /\ TickIdle /\ LuaIdle /\ CoreIdle
    /\ MapIdle
    /\ HandlerIdle
    /\ GrantedItems = {}
    /\ CheckedLocations = {}
    /\ APSynced = TRUE
    /\ RandomisePurpleSigils = FALSE
    /\ RandomiseStars = FALSE
    /\ ReusableTetrominos = FALSE
    /\ CurrentProgress = "null"
    /\ CollectedTetrominos = <<>>
    /\ progressReachable = TRUE
    /\ lastPass = NoPass

\* a process is driven by on_update or by ModCore::Tick, never by both
NextCadence ==
    \/ lastCadence.driver # "Tick" /\ on_update
    \/ lastCadence.driver # "on_update" /\ ModCore_TickGated
    \/ \E id \in CoreItems : GrantItem(id)

SpecCadence == InitCadenceSpec /\ [][NextCadence]_vars

\* ---- goal detection and goal completion ----
InitGoalSpec ==
    /\ InitResolve /\ SessionIdle /\ StoreIdle /\ LinkIdle /\ TickIdle /\ LuaIdle
    /\ CoreIdle
    /\ MapIdle
    /\ HandlerIdle

NextGoal ==
    \/ GoalDetectionHandler_Init
    \/ ModCore_TickGoal
    \/ ResetGoalState
    \/ HostGameCompleted
    \/ HalfDelayElapses

SpecGoal == InitGoalSpec /\ [][NextGoal]_vars

\* ---- the scanner of the scripts, its callers and the host's actors ----
InitScanSpec == InitVisibilitySpec

NextScan ==
    \/ LuaPollingLoopScan
    \/ LuaClientRestart
    \/ LuaDelayedEnforceScan
    \/ HostActorChange

SpecScan == InitScanSpec /\ [][NextScan]_vars

\* ---- ItemMapping: key translation ----
InitKeysSpec ==
    /\ InitResolve /\ SessionIdle /\ StoreIdle /\ LinkIdle /\ TickIdle /\ LuaIdle
    /\ CoreIdle
    /\ MapIdle
    /\ HandlerIdle

NextKeys ==
    \/ CallToGameKey
    \/ CallFromGameKey

SpecKeys == InitKeysSpec /\ [][NextKeys]_vars

(***************************************************************************)
(* Properties: identifier resolution (SpecResolve)                         *)
(***************************************************************************)
KnownItem(apItemId) == apItemId \in DOMAIN m_apItemIdToPrefix

SequenceOf(apItemId) == m_tetrominoSequences[m_apItemIdToPrefix[apItemId]]

\* how many of the first i logged calls carried the item ID of call i
Occurrence(log, i) == Cardinality({j \in 1..i : log[j].id = log[i].id})

\* C1: from zeroed counters the i-th call for a known item ID returns the
\* i-th entry of its prefix's sequence, and the call after the last entry
\* returns no item, whatever calls for other IDs are interleaved.
C1_ResolutionDeterminism ==
    \A i \in 1..Len(resolveLog) :
        KnownItem(resolveLog[i].id) =>
            LET S == SequenceOf(resolveLog[i].id)
                k == Occurrence(resolveLog, i)
            IN  /\ k <= Len(S) => resolveLog[i].result = Some(S[k])
                /\ k = Len(S) + 1 => resolveLog[i].result = nullopt

\* a sequence was resolved to its end and then exhausted, with a call for
\* another item ID in between
C1_Witness ==
    \E i, j, k \in 1..Len(resolveLog) :
        /\ i < j /\ j < k
        /\ KnownItem(resolveLog[i].id)
        /\ resolveLog[k].id = resolveLog[i].id
        /\ resolveLog[j].id # resolveLog[i].id
        /\ resolveLog[i].result # nullopt
        /\ Occurrence(resolveLog, k) = Len(SequenceOf(resolveLog[k].id)) + 1
        /\ resolveLog[k].result = nullopt

\* the step is a ResolveNextItem call with this item ID
IsResolveCall(apItemId) ==
    /\ Len(resolveLog') = Len(resolveLog) + 1
    /\ resolveLog'[Len(resolveLog')].id = apItemId

\* C2: a call for a prefix whose received count has reached (or passed) its
\* sequence length returns no item, leaves GrantedItems alone and still
\* increments the count; so every later call is exhausted too.
C2_ExhaustedStillCounts ==
    [][\A apItemId \in DOMAIN m_apItemIdToPrefix :
          LET prefix == m_apItemIdToPrefix[apItemId]
          IN  (/\ IsResolveCall(apItemId)
               /\ CountOf(m_receivedCounts, prefix) >= Len(SequenceOf(apItemId)))
              => /\ resolveLog'[Len(resolveLog')].result = nullopt
                 /\ CountOf(m_receivedCounts', prefix)
                       = CountOf(m_receivedCounts, prefix) + 1
                 /\ GrantedItems' = GrantedItems]_vars

\* a prefix was called at least twice after its sequence ran out
C2_Witness ==
    \E apItemId \in DOMAIN m_apItemIdToPrefix :
        /\ CountOf(m_receivedCounts, m_apItemIdToPrefix[apItemId])
              >= Len(SequenceOf(apItemId)) + 2
        /\ resolveLog # <<>>
        /\ resolveLog[Len(resolveLog)].id = apItemId
        /\ resolveLog[Len(resolveLog)].result = nullopt

\* C3: after ResetItemCounters the replay of the server's items resolves
\* every item to what it resolved to when it was first delivered.
C3_ReplayReproduces ==
    \A i \in 1..Len(resolveLog) : resolveLog[i].result = origLog[i]

\* part of the items has been replayed after a reset, among them one that
\* resolved and one that was exhausted
C3_Witness ==
    /\ Len(resolveLog) < Len(serverItems)
    /\ \E i, j \in 1..Len(resolveLog) :
          /\ resolveLog[i].result # nullopt
          /\ KnownItem(resolveLog[j].id)
          /\ resolveLog[j].result = nullopt

\* the sequence number embedded in an entry: what ExtractNumber reads after the
\* letters, and for the entries of the star sequence the digits after "**"
SeqNumber(id) ==
    IF AlphaRun(id) > 0 THEN ExtractNumber(id) ELSE StoI(SubSeq(id, 3, Len(id)))

StrictlyIncreasing(seq) ==
    \A i \in 1..(Len(seq) - 1) : SeqNumber(seq[i]) < SeqNumber(seq[i + 1])

\* m_tetrominoSequences with the writes made since BuildSequences applied
RECURSIVE ApplyWrites(_, _)
ApplyWrites(table, writes) ==
    IF writes = <<>> THEN table
    ELSE LET prefix == Head(writes)
             next == IF prefix \in DOMAIN table /\ table[prefix] # <<>>
                     THEN [table EXCEPT ![prefix] = Tail(table[prefix])]
                     ELSE table
         IN  ApplyWrites(next, Tail(writes))

\* ItemMapping::m_tetrominoSequences as the object holds it
SequencesHeld == ApplyWrites(m_tetrominoSequences, sequenceWrites)

\* C31: every sequence the registry built is strictly increasing by embedded
\* number, and whatever ResolveNextItem and ResetItemCounters calls have been
\* made, the registry holds the sequences as BuildSequences left them.
C31_SequencesIncreasingAndFixed ==
    /\ SequencesHeld = m_tetrominoSequences
    /\ \A prefix \in DOMAIN SequencesHeld : StrictlyIncreasing(SequencesHeld[prefix])

\* items were resolved, one sequence to its end and beyond, the counters were
\* reset and part of the items resolved again
C31_Witness ==
    /\ Len(resolveLog) < Len(serverItems)
    /\ Len(resolveLog) > 0
    /\ \E i \in 1..Len(origLog) : origLog[i] = nullopt /\ KnownItem(serverItems[i])
    /\ \E i \in 1..Len(resolveLog) : resolveLog[i].result # nullopt
    /\ \E prefix \in DOMAIN SequencesHeld : Len(SequencesHeld[prefix]) > 1

(***************************************************************************)
(* Properties: the Green J scenario (SpecScenario)                         *)
(***************************************************************************)
GreenJ == 5505024

\* what the calls for Green J since the counters were zeroed returned, in order
GreenJResults ==
    LET IsGreenJ(e) == e.id = GreenJ
        calls == SelectSeq(resolveLog, IsGreenJ)
    IN  [k \in 1..Len(calls) |-> calls[k].result]

\* C26 as stated: item 0x540000 has prefix "DJ" and the sequence
\* [DJ1, DJ2, DJ3]; four grants from zeroed counters resolve to DJ1, DJ2, DJ3
\* and then to no item.
C26_Original ==
    /\ m_apItemIdToPrefix[GreenJ] = <<"D","J">>
    /\ m_tetrominoSequences[<<"D","J">>]
          = <<Id("D","J",1), Id("D","J",2), Id("D","J",3)>>
    /\ Len(GreenJResults) >= 4 =>
          SubSeq(GreenJResults, 1, 4)
             = <<Some(Id("D","J",1)), Some(Id("D","J",2)), Some(Id("D","J",3)),
                 nullopt>>

\* C26 (amended): item 0x540000 has prefix "DJ" and the sequence
\* [DJ1, DJ2, DJ3, DJ4, DJ5]; from zeroed counters its first four grants
\* resolve to DJ1, DJ2, DJ3, DJ4, the fifth to DJ5 and every later one to no
\* item.
C26_GreenJScenario ==
    /\ m_apItemIdToPrefix[GreenJ] = <<"D","J">>
    /\ m_tetrominoSequences[<<"D","J">>]
          = <<Id("D","J",1), Id("D","J",2), Id("D","J",3), Id("D","J",4),
              Id("D","J",5)>>
    /\ \A k \in 1..Len(GreenJResults) :
          GreenJResults[k] = IF k <= 5 THEN Some(Id("D","J",k)) ELSE nullopt

\* Green J was granted six times: the fourth grant gave DJ4, the sixth nothing
C26_Witness ==
    /\ Len(GreenJResults) >= 6
    /\ GreenJResults[4] = Some(Id("D","J",4))
    /\ GreenJResults[6] = nullopt

(***************************************************************************)
(* Properties: reconciliation (SpecEnforce)                                *)
(***************************************************************************)
\* the pass just made got past its guards
PassRan == lastPass.called /\ lastPass.ran

\* is the entry's item granted, stars being looked up under the map key
KeyGranted(gameKey) ==
    IF IsStar(FromGameKey(gameKey))
    THEN gameKey \in GrantedItems
    ELSE FromGameKey(gameKey) \in GrantedItems

KeyRecognised(gameKey) == FromGameKey(gameKey) \in Range(AllLocations)

\* is the entry's class left to the base game by the slot options
ClassExcluded(gameKey) ==
    \/ ~RandomisePurpleSigils /\ IsPurpleSigil(FromGameKey(gameKey))
    \/ ~RandomiseStars /\ IsStar(FromGameKey(gameKey))

C7_UnrecognisedUntouched ==
    lastPass.called =>
        \A k \in (DOMAIN lastPass.before \cup DOMAIN CollectedTetrominos) :
            ~KeyRecognised(k) =>
                /\ k \in DOMAIN lastPass.before
                /\ k \in DOMAIN CollectedTetrominos
                /\ CollectedTetrominos[k] = lastPass.before[k]

\* what a pass would write to the map in the current state
PendingWrites ==
    LET r == EnforcePhases(CollectedTetrominos, GrantedItems, RandomisePurpleSigils,
                           RandomiseStars, ReusableTetrominos)
    IN  r.removed \cup r.added \cup r.reset

\* C8: a call that cannot acquire the progress object, or finds the session
\* not synced, writes nothing to the map.
C8_SkippedPassWritesNothing ==
    (lastPass.called /\ (~lastPass.acquired \/ ~lastPass.synced)) =>
        /\ ~lastPass.ran
        /\ CollectedTetrominos = lastPass.before
        /\ lastPass.removed \cup lastPass.added \cup lastPass.reset = {}

\* a call was skipped for lack of sync although the object was acquired and
\* there was something to write
C8_Witness ==
    /\ lastPass.called
    /\ lastPass.acquired
    /\ ~lastPass.synced
    /\ PendingWrites # {}

C30_InsertsUnusedKeepsFlags ==
    PassRan =>
        /\ \A k \in lastPass.added :
              /\ k \notin DOMAIN lastPass.before
              /\ k \in DOMAIN CollectedTetrominos
              /\ CollectedTetrominos[k] = FALSE
        /\ ~ReusableTetrominos =>
              \A k \in DOMAIN lastPass.before \cap DOMAIN CollectedTetrominos :
                  CollectedTetrominos[k] = lastPass.before[k]

\* a pass without re-collect mode inserted an entry next to a granted one
\* that was used
C30_Witness ==
    /\ PassRan
    /\ ~ReusableTetrominos
    /\ lastPass.added # {}
    /\ \E k \in DOMAIN lastPass.before :
          /\ lastPass.before[k] = TRUE
          /\ LookupKey(k) \in GrantedItems
          /\ k \in DOMAIN CollectedTetrominos

(***************************************************************************)
(* Properties: reconciliation with failing keys (SpecFaulty)               *)
(***************************************************************************)
\* C28: when the removal or the insertion of some keys fails during a pass,
\* every other key marked for removal is gone after the pass and every other
\* missing granted key is there with used = false; and the reset of the used
\* flags still takes place.
C28_ContinueOnError ==
    PassRan =>
        LET marked  == ToRemoveGameKeys(lastPass.before, GrantedItems,
                                        RandomisePurpleSigils, RandomiseStars)
            missing == ToAddGameKeys(lastPass.before, GrantedItems)
        IN  /\ \A k \in marked \ lastPass.failedRemove :
                  k \notin DOMAIN CollectedTetrominos
            /\ \A k \in missing \ lastPass.failedAdd :
                  /\ k \in DOMAIN CollectedTetrominos
                  /\ CollectedTetrominos[k] = FALSE
            /\ ReusableTetrominos =>
                  \A k \in DOMAIN CollectedTetrominos : CollectedTetrominos[k] = FALSE

\* in one pass a removal failed and another was made, an insertion failed and
\* another was made
C28_Witness ==
    /\ PassRan
    /\ lastPass.failedRemove # {}
    /\ lastPass.removed # {}
    /\ lastPass.failedAdd # {}
    /\ lastPass.added # {}

(***************************************************************************)
(* Properties: DeathLink (SpecLink)                                        *)
(***************************************************************************)
\* C9: a death observed while the echo-suppress flag is set does not set
\* PendingDeathLinkSend and clears the flag; the death from a teleported
\* mine never queues an outbound send; the flag is consumed once per
\* enacted inbound request.
C9_EchoSuppression ==
    /\ (lastEvent.kind = "hook" /\ lastEvent.flagBefore) =>
          /\ PendingDeathLinkSend = lastEvent.sendBefore
          /\ ~IsDeathLinkDeath
    /\ (lastEvent.kind = "hook" /\ lastEvent.cause = "link") =>
          PendingDeathLinkSend = lastEvent.sendBefore
    /\ enactCount = consumeCount + (IF IsDeathLinkDeath THEN 1 ELSE 0)

\* the second link-caused death was observed with the flag set
C9_Witness ==
    /\ lastEvent.kind = "hook"
    /\ lastEvent.cause = "link"
    /\ lastEvent.flagBefore
    /\ consumeCount = 2

NotEnacted == {"noPlayer", "alreadyDead", "deferred"}

\* C10: whenever ProcessPendingDeathLink returned without enacting the
\* death the flag is false, and a local death that follows with the link
\* enabled sets PendingDeathLinkSend.
C10_FlagClearedOnFailure ==
    /\ (lastEvent.kind = "process" /\ lastEvent.outcome \in NotEnacted) =>
          ~IsDeathLinkDeath
    /\ (/\ lastEvent.kind = "hook"
        /\ lastEvent.cause = "local"
        /\ DeathLinkEnabled
        /\ lastOutcome \in NotEnacted) => PendingDeathLinkSend

\* the teleport onto the player was attempted and failed
C10_Witness ==
    /\ lastEvent.kind = "process"
    /\ lastEvent.attempted
    /\ lastEvent.outcome = "deferred"
    /\ PendingDeferredDeathLink
(***************************************************************************)
(* Properties: deferred retry (SpecTick)                                   *)
(***************************************************************************)
TickRan == lastEvent.kind = "tick" /\ ~lastEvent.skipped

C12_DeferredNeverLost ==
    deferredUnenacted => (PendingDeferredDeathLink \/ PendingDeathLinkReceive)

\* C20: a drained request that finds no player entity is dropped: afterwards
\* PendingDeathLinkReceive is false, PendingDeferredDeathLink and the
\* echo-suppress flag are as ProcessPendingDeathLink found them, no mine was
\* moved, and the drop itself leaves nothing a cooldown could re-arm.
C20_NoPlayerDrops ==
    (TickRan /\ lastEvent.outcome = "noPlayer") =>
        /\ ~PendingDeathLinkReceive
        /\ PendingDeferredDeathLink = lastEvent.deferredMid
        /\ IsDeathLinkDeath = lastEvent.flagBefore
        /\ ~mineOnPlayer
        /\ ~lastEvent.attempted
        /\ ~lastEvent.deferredMid => ~(PendingDeferredDeathLink \/ PendingDeathLinkReceive)

\* an inbound request was drained while no player entity existed
C20_Witness ==
    /\ TickRan
    /\ lastEvent.outcome = "noPlayer"
    /\ lastEvent.recvBefore
    /\ ~playerPresent
    /\ ~PendingDeferredDeathLink

\* C21: a drained request that finds the player already dead is dropped: no
\* mine is moved, the echo-suppress flag and PendingDeferredDeathLink are as
\* ProcessPendingDeathLink found them, and PendingDeathLinkReceive is false.
C21_AlreadyDeadDrops ==
    (TickRan /\ lastEvent.outcome = "alreadyDead") =>
        /\ ~PendingDeathLinkReceive
        /\ ~lastEvent.attempted
        /\ ~mineOnPlayer
        /\ IsDeathLinkDeath = lastEvent.flagBefore
        /\ ~IsDeathLinkDeath
        /\ PendingDeferredDeathLink = lastEvent.deferredMid

\* an inbound request was drained while the player was dead, nothing deferred
C21_Witness ==
    /\ TickRan
    /\ lastEvent.outcome = "alreadyDead"
    /\ lastEvent.recvBefore
    /\ playerPresent /\ bIsDead
    /\ ~PendingDeferredDeathLink

\* C22: a gated tick that reaches link processing leaves PendingDeathLinkSend
\* false and makes at most one SendDeathLink call, one exactly when the flag
\* was set with the link enabled; with the flag clear it makes none.  A tick
\* that stops at the cooldown makes none and leaves the flag.
C22_SendDrainedOncePerTick ==
    /\ TickRan =>
         /\ ~PendingDeathLinkSend
         /\ lastEvent.sendCalls \in {0, 1}
         /\ lastEvent.sendCalls = 1 <=> (lastEvent.sendBefore /\ DeathLinkEnabled)
         /\ ~lastEvent.sendBefore => lastEvent.sendCalls = 0
    /\ (lastEvent.kind = "tick" /\ lastEvent.skipped) =>
         /\ lastEvent.sendCalls = 0
         /\ PendingDeathLinkSend = lastEvent.sendBefore
    /\ sendCount <= localDeathCount

\* the second local death's flag was drained by a tick that sent it
C22_Witness ==
    /\ TickRan
    /\ lastEvent.sendBefore
    /\ lastEvent.sendCalls = 1
    /\ sendCount = 2

(***************************************************************************)
(* Properties: received items (SpecGrant)                                  *)
(***************************************************************************)
\* the result of the ResolveNextItem call logged by this step
LoggedResult == resolveLog'[Len(resolveLog')].result

\* C17 as stated: delivering a numeric item ID that was delivered before
\* leaves GrantedItems as it was.
C17_Original ==
    [][\A apItemId \in ApItemIdInputs :
          (/\ IsResolveCall(apItemId)
           /\ \E i \in DOMAIN serverItems : serverItems[i] = apItemId)
          => GrantedItems' = GrantedItems]_vars

\* C17: GrantItem of a concrete ID that is already granted leaves GrantedItems
\* unchanged; a delivery of a numeric item ID, repeated or not, adds exactly
\* the concrete ID it resolves to, which for a known ID with entries left is
\* the next entry of the prefix's sequence, and adds nothing otherwise.
C17_GrantIdempotentPerConcreteId ==
    [][/\ \A id \in GrantUniverse :
             (GrantItem(id) /\ id \in GrantedItems) => GrantedItems' = GrantedItems
       /\ \A apItemId \in ApItemIdInputs :
             IsResolveCall(apItemId) =>
                /\ GrantedItems' = GrantedItems \cup Range(LoggedResult)
                /\ (/\ KnownItem(apItemId)
                    /\ CountOf(m_receivedCounts, m_apItemIdToPrefix[apItemId])
                          < Len(SequenceOf(apItemId)))
                   => LoggedResult =
                         Some(SequenceOf(apItemId)[
                            CountOf(m_receivedCounts, m_apItemIdToPrefix[apItemId]) + 1])]_vars

\* the same numeric item ID was delivered twice and two different concrete
\* IDs are granted for it
C17_Witness ==
    \E i, j \in DOMAIN resolveLog :
        /\ i < j
        /\ resolveLog[i].id = resolveLog[j].id
        /\ resolveLog[i].result # nullopt
        /\ resolveLog[j].result # nullopt
        /\ resolveLog[i].result # resolveLog[j].result
        /\ resolveLog[i].result[1] \in GrantedItems
        /\ resolveLog[j].result[1] \in GrantedItems

\* C19: a delivery of a numeric item ID that is not in the registry returns
\* no item and leaves every received count and GrantedItems unchanged.
C19_UnknownIdNoEffect ==
    [][\A apItemId \in ApItemIdInputs :
          (IsResolveCall(apItemId) /\ ~KnownItem(apItemId))
          => /\ LoggedResult = nullopt
             /\ m_receivedCounts' = m_receivedCounts
             /\ GrantedItems' = GrantedItems]_vars

\* an unknown ID was delivered after known ones had been counted and granted
C19_Witness ==
    /\ resolveLog # <<>>
    /\ ~KnownItem(resolveLog[Len(resolveLog)].id)
    /\ resolveLog[Len(resolveLog)].result = nullopt
    /\ m_receivedCounts # <<>>
    /\ GrantedItems # {}

(***************************************************************************)
(* Properties: visibility loop and pickups (SpecVisibility)                *)
(***************************************************************************)
\* the last step was a run of the fast visibility loop outside the cooldown
FastLoopRan == lastVis.kind = "fast" /\ ~lastVis.skipped

C14_RemovesOnlyCollectableNow ==
    FastLoopRan =>
        /\ \A id \in lastVis.removed : ShouldBeCollectable(id)
        /\ lastVis.removed \cap CheckedLocations = {}
        /\ lastVis.inserted = {}

\* a run that removed an entry and left the entry of a checked item in place
C14_Witness ==
    /\ FastLoopRan
    /\ lastVis.removed # {}
    /\ \E id \in CheckedLocations : id \in DOMAIN CollectedTetrominos

\* C15: hidden-permanently.  After a run of the visibility loop, every item that
\* is checked and not granted has a hidden actor, and the run inserted or removed
\* no World Store entry for it.
C15_HiddenPermanently ==
    FastLoopRan =>
        \A id \in LuaItems :
            (IsLocationChecked(id) /\ ~IsGranted(id)) =>
                /\ actorPresentation[id] = "hidden"
                /\ id \notin lastVis.removed \cup lastVis.inserted

\* C16: no World Store access uses a handle acquired in an earlier tick.  Every
\* run of a loop or callback of the scripts that reads or writes the store
\* acquired State.CurrentProgress afresh in that same run.
C16_NoRetainedHandle ==
    (/\ lastVis.kind # "none"
     /\ ~lastVis.skipped
     /\ lastVis.storeAccess) => lastVis.handleFresh

\* C18: Checked is mutated only by pickup detection.  Every step that changes
\* CheckedLocations is a run of the scanner, in the polling loop or in the
\* delayed callback.
C18_CheckedOnlyByPickup ==
    [][CheckedLocations' # CheckedLocations => (LuaPollingLoop \/ LuaDelayedEnforce)]_vars

\* C34: the cache the fast loop consults is cleared on a pickup and on a
\* restart.  A step in which the scanner reports the pickup of an item leaves
\* that item's entry of VisibilityApplied empty, and the ClientRestart hook
\* leaves every entry empty, so that the next run of the loop calls the driver.
C34_CacheCleared ==
    [][/\ \A id \in CheckedLocations' \ CheckedLocations :
             VisibilityApplied'[id] = "none"
       /\ LuaClientRestart =>
             \A id \in LuaItems : VisibilityApplied'[id] = "none"]_vars

(***************************************************************************)
(* Properties: the two loops with Granted and Checked fixed (SpecSteady)   *)
(***************************************************************************)
\* the item is granted and Collectable-now: the fast loop removes its entry and
\* the reconciliation pass inserts it
Contended(id) == IsGranted(id) /\ ShouldBeCollectable(id)

\* the step leaves the item's entry in the map as it is
EntryUnchanged(id) ==
    /\ (id \in DOMAIN CollectedTetrominos') = (id \in DOMAIN CollectedTetrominos)
    /\ id \in DOMAIN CollectedTetrominos =>
          CollectedTetrominos'[id] = CollectedTetrominos[id]

\* C27 as stated: with Granted and Checked unchanged, the alternation of the
\* two loops reaches a point after which no step changes the map or the
\* presentation of an actor.
C27_Original ==
    <>[][UNCHANGED <<CollectedTetrominos, actorPresentation>>]_vars

\* C27 (amended): with Granted and Checked unchanged, the alternation of the
\* two loops reaches a point after which no run of the visibility loop calls
\* the driver and no step changes the entry of an item that is not both
\* granted and Collectable-now; the entry of an item that is both keeps being
\* removed by the visibility loop and inserted by the reconciliation pass for
\* as long as the scripts hold a usable progress object.
C27_FixedPointButForContended ==
    /\ <>[](FastLoopRan => lastVis.repeatCalls = {})
    /\ <>[][/\ UNCHANGED actorPresentation
            /\ \A id \in LuaItems : ~Contended(id) => EntryUnchanged(id)]_vars
    /\ \A id \in LuaItems :
          [](HandleUsable(State_CurrentProgress) /\ Contended(id)
               => /\ <>(id \in DOMAIN CollectedTetrominos)
                  /\ <>(id \notin DOMAIN CollectedTetrominos))

\* a run of the visibility loop that made no driver call removed the entry of
\* a granted item, which the reconciliation pass had inserted
C27_Witness ==
    /\ FastLoopRan
    /\ lastVis.repeatRun
    /\ lastVis.repeatCalls = {}
    /\ \E id \in lastVis.removed :
          /\ Contended(id)
          /\ VisibilityApplied[id] = "visible"
          /\ actorPresentation[id] = "visible"

(***************************************************************************)
(* Properties: TickScheduler (SpecSched)                                   *)
(***************************************************************************)
\* C23: the first ShouldTick call returns true; every later call returns true
\* exactly when at least TICK_INTERVAL_MS of wall-clock time separate it from
\* the previous call that returned true, so two calls that return true are at
\* least one interval apart; Advance leaves the timer alone, and m_lastTick is
\* always the reading of the latest call that returned true.
C23_ShouldTickOncePerInterval ==
    /\ m_lastTick = lastFireAt
    /\ lastSched.kind = "call" =>
         /\ lastSched.first => lastSched.result
         /\ ~lastSched.first =>
               (lastSched.result <=>
                   steadyNow - lastSched.prevFire >= TICK_INTERVAL_MS * TicksPerMs)

\* a later call returned true exactly one interval after the previous call that
\* returned true, with frames counted in between
C23_Witness ==
    /\ lastSched.kind = "call"
    /\ ~lastSched.first
    /\ lastSched.result
    /\ steadyNow - lastSched.prevFire = TICK_INTERVAL_MS * TicksPerMs
    /\ m_frame > 0

(***************************************************************************)
(* Properties: ModCore::Tick, whole (SpecCore)                             *)
(***************************************************************************)
\* what a tick can write: scheduler, network poll, Session State, World Store,
\* link flags and sends, goal
TickWrites ==
    <<m_frame, m_lastTick, pollCount, sessionVars, CollectedTetrominos, linkFlags,
      mineOnPlayer, sendCount, m_levelTransitionCooldownWasActive,
      m_goalCompleted, m_goalSent, goalSendCount>>

\* C24: once the shutdown flag is set it stays set, and every ModCore::Tick
\* call made from then on changes nothing: no network poll, no Session State
\* mutation, no World Store access, no link send, no goal send.
C24_ShutdownTickNoOp ==
    [][/\ m_shuttingDown => m_shuttingDown'
       /\ shutdownTicks' # shutdownTicks => UNCHANGED TickWrites]_vars

\* a tick was called after shutdown while an outbound link event, a store write
\* and a goal notification were all waiting, the clock having reached the next
\* tick interval after earlier frames
C24_Witness ==
    /\ m_shuttingDown
    /\ shutdownTicks > 0
    /\ m_frame > 0
    /\ steadyNow - m_lastTick >= TICK_INTERVAL_MS * TicksPerMs
    /\ PendingDeathLinkSend
    /\ PendingWrites # {}
    /\ m_goalCompleted /\ ~m_goalSent

(***************************************************************************)
(* Properties: the gated tick and the cooldown (SpecCooldown)              *)
(***************************************************************************)
\* what the steps behind the cooldown handler can write
GatedWrites ==
    <<PendingDeathLinkSend, PendingDeathLinkReceive, PendingDeferredDeathLink,
      IsDeathLinkDeath, mineOnPlayer, sendCount, enactCount, rearmCount,
      sessionVars, CollectedTetrominos, lastPass,
      m_goalCompleted, m_goalSent, goalSendCount>>

\* C32: a gated tick during the level-transition cooldown reaches none of the
\* steps behind the cooldown handler and writes nothing but the handler's
\* latch; PendingDeathLinkSend and PendingDeathLinkReceive are cleared by no
\* step other than a gated tick outside a cooldown, and such a tick reaches
\* every step and handles both flags.
C32_CooldownTickSkipsAll ==
    [][/\ (lastEvent'.kind = "tick" /\ ModCore_TickGated) =>
             IF inLevelTransitionCooldown
             THEN /\ UNCHANGED GatedWrites
                  /\ lastEvent'.steps = {}
             ELSE /\ lastEvent'.steps = GatedSteps
                  /\ ~PendingDeathLinkSend'
                  /\ ~PendingDeathLinkReceive'
                  /\ PendingDeathLinkSend => sendCount' = sendCount + 1
                  /\ PendingDeathLinkReceive => lastEvent'.outcome # "idle"
                  /\ lastPass'.called
       /\ ((PendingDeathLinkSend /\ ~PendingDeathLinkSend')
              \/ (PendingDeathLinkReceive /\ ~PendingDeathLinkReceive')) =>
             (~inLevelTransitionCooldown /\ ModCore_TickGated)]_vars

\* the first tick after a cooldown, which a tick had seen active, found both
\* flags set and a goal reported, and handled them
C32_Witness ==
    /\ TickRan
    /\ lastEvent.expired
    /\ lastEvent.recvBefore
    /\ lastEvent.sendBefore
    /\ lastEvent.sendCalls = 1
    /\ lastEvent.outcome # "idle"
    /\ lastEvent.steps = GatedSteps
    /\ lastPass.called
    /\ lastPass.added # {}
    /\ goalSendCount = 1
    /\ ~PendingDeathLinkSend
    /\ ~PendingDeathLinkReceive

(***************************************************************************)
(* Properties: key translation (SpecKeys)                                  *)
(***************************************************************************)
\* the store keys of stars, "**n"
StarKeys == {StarGameKey(s) : s \in Range(ALL_STARS)}

\* the claim as stated: each translation undone by the other gives back the
\* ID, resp. the key, it started from, for every ID and key the core handles
C25_Original ==
    lastConv.kind \in {"to", "from"} => lastConv.back = lastConv.input

\* C25: ToGameKey and FromGameKey are total; ToGameKey(FromGameKey(key)) = key
\* for every store key; FromGameKey(ToGameKey(id)) = id for every ID that is
\* not a star in store-native form "**n"; ToGameKey is the identity on every ID
\* that is not a star location ID (SLn/SZn), FromGameKey on every key that is
\* not a star key (**n); between the star location IDs and the star keys the
\* two are bijections, each the inverse of the other.
C25_KeyTranslationRoundTrip ==
    /\ lastConv.kind = "from" => lastConv.back = lastConv.input
    /\ (lastConv.kind = "to" /\ lastConv.input \notin StarKeys) =>
          lastConv.back = lastConv.input
    /\ (lastConv.kind = "to" /\ lastConv.input \notin Range(ALL_STARS)) =>
          lastConv.result = lastConv.input
    /\ (lastConv.kind = "from" /\ lastConv.input \notin StarKeys) =>
          lastConv.result = lastConv.input
    /\ (lastConv.kind = "to" /\ lastConv.input \in Range(ALL_STARS)) =>
          /\ lastConv.result \in StarKeys
          /\ \A other \in Range(ALL_STARS) :
                ToGameKey(other) = lastConv.result => other = lastConv.input
    /\ (lastConv.kind = "from" /\ lastConv.input \in StarKeys) =>
          /\ lastConv.result \in Range(ALL_STARS)
          /\ \A other \in StarKeys :
                FromGameKey(other) = lastConv.result => other = lastConv.input
    /\ Cardinality(StarKeys) = Len(ALL_STARS)

\* a star location ID with a two-digit number was translated and came back
C25_Witness ==
    /\ lastConv.kind = "to"
    /\ lastConv.input = Id("S","Z",24)
    /\ lastConv.result = <<"*","*","2","4">>
    /\ lastConv.back = lastConv.input

GoalTickRan == lastGoal.kind = "tick"

PhaseRank(phase) ==
    CASE phase = "Idle" -> 0
      [] phase = "Warmup" -> 1
      [] phase = "Polling" -> 2
      [] phase = "Completed" -> 3

PhaseNow == GoalPhase(goalInitAt # 0, m_pollingActive, m_goalCompleted)

\* C35: SendGoalComplete is called at most once.  It is called on the first
\* tick that finds a goal completed, and a tick that finds one completed after
\* ResetGoalState, m_goalSent being set, does not call it again.
C35_GoalSentOnce ==
    /\ goalSendCount <= 1
    /\ m_goalSent <=> (goalSendCount = 1)
    /\ fireCount >= 1 => goalSendCount = 1
    /\ (GoalTickRan /\ lastGoal.fired # "none") =>
          (lastGoal.sentBefore <=> (fireCount > 1))

\* a goal was detected, the goal state was reset, and a tick detected a goal
\* again
C35_Witness ==
    /\ GoalTickRan
    /\ lastGoal.fired # "none"
    /\ lastGoal.sentBefore
    /\ resetCount = 1
    /\ fireCount = 2
    /\ m_goalCompleted
    /\ goalSendCount = 1

\* C36 as stated: the IsGameCompleted fallback fires only when the poll reads
\* true and the poll before it read false; the phase of goal polling never goes
\* back; no goal is fired before POLL_DELAY_MS has passed since Init
C36_RisingEdgeInOrderAfterDelay ==
    /\ (GoalTickRan /\ lastGoal.fired = "IsGameCompleted") =>
          (lastGoal.read = "true" /\ lastGoal.prevRead = "false")
    /\ lastGoal.kind # "none" => PhaseRank(lastGoal.phaseBefore) <= PhaseRank(PhaseNow)
    /\ (GoalTickRan /\ lastGoal.fired # "none") =>
          lastGoal.at >= goalInitAt + POLL_DELAY_MS * TicksPerMs

\* the part of C36 the code keeps when ResetGoalState is not called: the phase
\* never goes back, no goal is fired before the delay has passed, and the
\* fallback fires only on a true reading that follows a false one or none
GoalPollingWithoutReset ==
    resetCount = 0 =>
        /\ (GoalTickRan /\ lastGoal.fired = "IsGameCompleted") =>
              (lastGoal.read = "true" /\ lastGoal.prevRead \in {"false", "none"})
        /\ lastGoal.kind # "none" =>
              PhaseRank(lastGoal.phaseBefore) <= PhaseRank(PhaseNow)
        /\ (GoalTickRan /\ lastGoal.fired # "none") =>
              lastGoal.at >= goalInitAt + POLL_DELAY_MS * TicksPerMs

(***************************************************************************)
(* Properties: the scanner's pickup reports (SpecScan)                     *)
(***************************************************************************)
ScanRan == lastScan.kind = "scan"

\* C37 as stated: a scan makes at most one report for an actor, and none for
\* an actor that was reported and has not been seen visible, not animating
\* and collectable since
C37_Original ==
    ScanRan =>
        \A a \in ScanActors :
            lastScan.reports[a] <= (IF lastScan.sinceBefore[a] = "no" THEN 1 ELSE 0)

\* C37: for as long as the entry of an actor is kept in State.TrackedItems, a
\* scan makes at most one report for it, and none if it was reported and has
\* not been seen visible, not animating and collectable since.  An entry that
\* was dropped, by a scan that did not find the actor or by the ClientRestart
\* hook, takes the record of the report with it.
C37_OncePerTrackedEntry ==
    ScanRan =>
        \A a \in ScanActors :
            /\ lastScan.reports[a] <= 1
            /\ lastScan.sinceBefore[a] = "tracked" => lastScan.reports[a] = 0
            /\ lastScan.sinceBefore[a] = "tracked" =>
                  (lastScan.before[a].tracked /\ lastScan.before[a].reported)

\* an actor reported for its animation is now seen hidden for the first time,
\* and the scan does not report it again
C37_Witness ==
    /\ ScanRan
    /\ \E a \in ScanActors :
          /\ lastScan.sinceBefore[a] = "tracked"
          /\ lastScan.before[a].tracked
          /\ lastScan.before[a].wasHidden = "false"
          /\ sceneActors[a].present
          /\ sceneActors[a].hidden = "true"
          /\ sceneActors[a].anim = "true"
          /\ lastScan.reports[a] = 0
          /\ TrackedItems[a].reported

(***************************************************************************)
(* Properties: outbound link events and local deaths (SpecOutbound)        *)
(***************************************************************************)
\* C38: there are never more SendDeathLink calls than local deaths the hook
\* saw with the link enabled and IsDeathLinkDeath clear, and every call follows
\* such a death that came after the call before it; a queued send stands for
\* such a death not yet sent
C38_SendsNeedGenuineDeaths ==
    /\ sendCount <= genuineDeathCount
    /\ sendCount <= sendCountAtDefeat + 1
    /\ PendingDeathLinkSend => sendCount = sendCountAtDefeat

\* a call sent the link event of a local death, after a death enacted for an
\* inbound link event, which the set echo-suppress flag kept from being sent
C38_Witness ==
    /\ lastEvent.kind = "process"
    /\ lastEvent.sent
    /\ sendCount = genuineDeathCount
    /\ sendCount = sendCountAtDefeat + 1
    /\ consumeCount >= 1
    /\ localDeathCount + consumeCount > sendCount
    /\ DeathLinkEnabled

====
